---- MODULE Spec2Model ----
(***************************************************************************)
(* givetypst: an HTTP server that fetches a Typst template (and optional   *)
(* JSON data) from a bucket, compiles it in a temporary directory and      *)
(* returns the PDF.  The model follows server.go (handleGenerate,          *)
(* fetchFromBucket, fetchTemplate, fetchData, NewServer) and typst.go      *)
(* (compileTypstWith, LocalTypstCompiler.Compile).                         *)
(*                                                                         *)
(* Bytes are one-character strings; a byte string is a sequence of them.   *)
(***************************************************************************)
EXTENDS Integers, Sequences, FiniteSets, TLC

----------------------------------------------------------------------------
(* encoding/json as the program uses it: a scanner over bytes, a value     *)
(* parser, the decoding into GenerateRequest and into map[string]any, and  *)
(* MarshalIndent.                                                          *)

Quote == "\""
Digit == {"0", "1", "2", "3", "4", "5", "6", "7", "8", "9"}
Space == {" ", "\n"}
Punct == {"{", "}", ":", ","}

DigitVal(c) ==
  CASE c = "0" -> 0 [] c = "1" -> 1 [] c = "2" -> 2 [] c = "3" -> 3
    [] c = "4" -> 4 [] c = "5" -> 5 [] c = "6" -> 6 [] c = "7" -> 7
    [] c = "8" -> 8 [] c = "9" -> 9

DigitOf(n) ==
  CASE n = 0 -> "0" [] n = 1 -> "1" [] n = 2 -> "2" [] n = 3 -> "3"
    [] n = 4 -> "4" [] n = 5 -> "5" [] n = 6 -> "6" [] n = 7 -> "7"
    [] n = 8 -> "8" [] n = 9 -> "9"

BadTok == [k |-> "bad"]

RECURSIVE StringEnd(_, _)
\* The index of the quote closing a string whose content starts at i; 0 if none.
StringEnd(b, i) ==
  IF i > Len(b) THEN 0
  ELSE IF b[i] = Quote THEN i ELSE StringEnd(b, i + 1)

RECURSIVE DigitsEnd(_, _)
\* The first index at or after i that holds no digit.
DigitsEnd(b, i) ==
  IF i <= Len(b) /\ b[i] \in Digit THEN DigitsEnd(b, i + 1) ELSE i

RECURSIVE NumVal(_)
NumVal(ds) ==
  IF ds = <<>> THEN 0
  ELSE NumVal(SubSeq(ds, 1, Len(ds) - 1)) * 10 + DigitVal(ds[Len(ds)])

RECURSIVE Lex(_, _)
\* The lexemes of b from index i on.  A byte no lexeme starts with, an
\* unterminated string and a number with a leading zero become BadTok, at
\* which the parser stops: the scanner reports an error only where it reads.
Lex(b, i) ==
  IF i > Len(b) THEN <<>>
  ELSE LET c == b[i] IN
    CASE c \in Space -> Lex(b, i + 1)
      [] c \in Punct -> <<[k |-> c]>> \o Lex(b, i + 1)
      [] c = Quote ->
           LET e == StringEnd(b, i + 1) IN
           IF e = 0 THEN <<BadTok>>
           ELSE <<[k |-> "str", s |-> SubSeq(b, i + 1, e - 1)]>> \o Lex(b, e + 1)
      [] c \in Digit ->
           LET e == DigitsEnd(b, i) IN
           IF c = "0" /\ e > i + 1 THEN <<BadTok>> \o Lex(b, e)
           ELSE <<[k |-> "num", n |-> NumVal(SubSeq(b, i, e - 1))]>> \o Lex(b, e)
      [] c = "n" ->
           IF i + 3 <= Len(b) /\ SubSeq(b, i, i + 3) = <<"n", "u", "l", "l">>
           THEN <<[k |-> "null"]>> \o Lex(b, i + 4)
           ELSE <<BadTok>> \o Lex(b, i + 1)
      [] OTHER -> <<BadTok>> \o Lex(b, i + 1)

ParseFail == [ok |-> FALSE]

RECURSIVE ParseValue(_, _), ParseMembers(_, _, _)
\* One JSON value starting at lexeme i: [ok, v, next], next the index after it.
\* An object keeps its members in source order, duplicates included.
ParseValue(toks, i) ==
  IF i > Len(toks) THEN ParseFail
  ELSE LET tok == toks[i] IN
    CASE tok.k = "str" -> [ok |-> TRUE, v |-> [t |-> "str", s |-> tok.s], next |-> i + 1]
      [] tok.k = "num" -> [ok |-> TRUE, v |-> [t |-> "num", n |-> tok.n], next |-> i + 1]
      [] tok.k = "null" -> [ok |-> TRUE, v |-> [t |-> "null"], next |-> i + 1]
      [] tok.k = "{" ->
           IF i + 1 <= Len(toks) /\ toks[i + 1].k = "}"
           THEN [ok |-> TRUE, v |-> [t |-> "obj", members |-> <<>>], next |-> i + 2]
           ELSE ParseMembers(toks, i + 1, <<>>)
      [] OTHER -> ParseFail

ParseMembers(toks, i, acc) ==
  IF i + 1 > Len(toks) \/ toks[i].k # "str" \/ toks[i + 1].k # ":" THEN ParseFail
  ELSE LET r == ParseValue(toks, i + 2) IN
    IF ~r.ok THEN ParseFail
    ELSE LET acc2 == Append(acc, [key |-> toks[i].s, val |-> r.v]) IN
      IF r.next > Len(toks) THEN ParseFail
      ELSE IF toks[r.next].k = "}"
           THEN [ok |-> TRUE, v |-> [t |-> "obj", members |-> acc2], next |-> r.next + 1]
      ELSE IF toks[r.next].k = ","
           THEN ParseMembers(toks, r.next + 1, acc2)
      ELSE ParseFail

\* A map[string]any: the nil map, or a map from keys to values.
NilMap == [t |-> "nil"]
EmptyFn == [x \in {} |-> x]
GoMap(f) == [t |-> "map", m |-> f]

RECURSIVE ToAny(_), MembersToMap(_, _)
\* The value json stores in an `any`: objects become maps, the rest stays.
ToAny(j) ==
  CASE j.t = "obj" -> GoMap(MembersToMap(j.members, EmptyFn))
    [] j.t = "null" -> NilMap
    [] OTHER -> j

\* The members stored into the map f in order: a later duplicate overwrites.
MembersToMap(ms, f) ==
  IF ms = <<>> THEN f
  ELSE LET hd == ms[1]
           g == [x \in (DOMAIN f) \cup {hd.key} |->
                   IF x = hd.key THEN ToAny(hd.val) ELSE f[x]]
       IN MembersToMap(Tail(ms), g)

\* The JSON names of GenerateRequest's fields (server.go struct tags).
TemplateKeyName == <<"t", "e", "m", "p", "l", "a", "t", "e", "K", "e", "y">>
DataName == <<"d", "a", "t", "a">>
DataKeyName == <<"d", "a", "t", "a", "K", "e", "y">>

\* The zero GenerateRequest: empty strings and a nil map.
ZeroRequest == [TemplateKey |-> <<>>, Data |-> NilMap, DataKey |-> <<>>]

RECURSIVE SetFields(_, _)
\* The members of the body's object stored into the struct, in order: null
\* leaves a field alone, a value of the wrong type is recorded as an error and
\* decoding goes on, an unknown name is skipped, and an object for "data" is
\* stored into the map the field already holds.
SetFields(ms, acc) ==
  IF ms = <<>> THEN acc
  ELSE LET hd == ms[1]
           r == acc.req
           next ==
             CASE hd.val.t = "null" -> acc
               [] hd.key = TemplateKeyName ->
                    IF hd.val.t = "str"
                    THEN [acc EXCEPT !.req = [r EXCEPT !.TemplateKey = hd.val.s]]
                    ELSE [acc EXCEPT !.err = TRUE]
               [] hd.key = DataKeyName ->
                    IF hd.val.t = "str"
                    THEN [acc EXCEPT !.req = [r EXCEPT !.DataKey = hd.val.s]]
                    ELSE [acc EXCEPT !.err = TRUE]
               [] hd.key = DataName ->
                    IF hd.val.t = "obj"
                    THEN [acc EXCEPT !.req = [r EXCEPT !.Data =
                            GoMap(MembersToMap(hd.val.members,
                                    IF r.Data = NilMap THEN EmptyFn ELSE r.Data.m))]]
                    ELSE [acc EXCEPT !.err = TRUE]
               [] OTHER -> acc
       IN SetFields(Tail(ms), next)

\* json.NewDecoder(r.Body).Decode(&req): the first JSON value of the body is
\* read and stored into req; what follows that value is not read.
DecodeRequest(body) ==
  LET r == ParseValue(Lex(body, 1), 1) IN
  IF ~r.ok THEN [err |-> TRUE, req |-> ZeroRequest]
  ELSE CASE r.v.t = "null" -> [err |-> FALSE, req |-> ZeroRequest]
         [] r.v.t = "obj" -> SetFields(r.v.members, [err |-> FALSE, req |-> ZeroRequest])
         [] OTHER -> [err |-> TRUE, req |-> ZeroRequest]

\* The whole byte string is one JSON value (json.Valid).
ValidJSON(bytes) ==
  LET toks == Lex(bytes, 1)
      r == ParseValue(toks, 1)
  IN r.ok /\ r.next = Len(toks) + 1

\* UnmarshalMap reading the first value only, as a Decoder does.
UnmarshalMapFirstValue(rawData) ==
  LET r == ParseValue(Lex(rawData, 1), 1)
  IN IF ~r.ok THEN [err |-> "syntax", data |-> NilMap]
     ELSE CASE r.v.t = "null" -> [err |-> "", data |-> NilMap]
            [] r.v.t = "obj" ->
                 [err |-> "", data |-> GoMap(MembersToMap(r.v.members, EmptyFn))]
            [] OTHER -> [err |-> "type", data |-> NilMap]

\* json.Unmarshal(rawData, &data) with data a nil map[string]any: the input
\* must be exactly one JSON value; null leaves the map nil, an object fills a
\* new map, any other value is a type error.
UnmarshalMap(rawData) ==
  LET toks == Lex(rawData, 1)
      r == ParseValue(toks, 1)
  IN IF ~(r.ok /\ r.next = Len(toks) + 1) THEN [err |-> "syntax", data |-> NilMap]
     ELSE CASE r.v.t = "null" -> [err |-> "", data |-> NilMap]
            [] r.v.t = "obj" ->
                 [err |-> "", data |-> GoMap(MembersToMap(r.v.members, EmptyFn))]
            [] OTHER -> [err |-> "type", data |-> NilMap]

\* Bytes in ascending order, for the sorted keys of a marshalled map.
ByteOrder ==
  <<"0", "1", "2", "3", "4", "5", "6", "7", "8", "9", "H", "J", "K",
    "a", "b", "c", "d", "e", "f", "g", "h", "i", "j", "k", "l", "m", "n",
    "o", "p", "q", "r", "s", "t", "u", "v", "w", "x", "y", "z">>
Rank(c) == CHOOSE i \in 1..Len(ByteOrder) : ByteOrder[i] = c

RECURSIVE KeyLess(_, _)
KeyLess(a, b) ==
  IF a = <<>> THEN b # <<>>
  ELSE IF b = <<>> THEN FALSE
  ELSE IF a[1] = b[1] THEN KeyLess(Tail(a), Tail(b))
  ELSE Rank(a[1]) < Rank(b[1])

RECURSIVE SortedKeys(_)
SortedKeys(S) ==
  IF S = {} THEN <<>>
  ELSE LET k == CHOOSE x \in S : \A y \in S \ {x} : KeyLess(x, y)
       IN <<k>> \o SortedKeys(S \ {k})

RECURSIVE NumBytes(_)
NumBytes(n) == IF n < 10 THEN <<DigitOf(n)>> ELSE NumBytes(n \div 10) \o <<DigitOf(n % 10)>>

RECURSIVE Indent(_)
Indent(depth) == IF depth = 0 THEN <<>> ELSE <<" ", " ">> \o Indent(depth - 1)

RECURSIVE Marshalable(_)
\* json.Marshal fails on a value it has no encoding for (a channel, a func).
Marshalable(v) ==
  CASE v.t = "map" -> \A x \in DOMAIN v.m : Marshalable(v.m[x])
    [] v.t = "chan" -> FALSE
    [] OTHER -> TRUE

RECURSIVE MarshalValue(_, _), MarshalEntries(_, _, _)
\* json.MarshalIndent(v, "", "  ") of a marshalable value, at nesting depth.
MarshalValue(v, depth) ==
  CASE v.t = "nil" -> <<"n", "u", "l", "l">>
    [] v.t = "num" -> NumBytes(v.n)
    [] v.t = "str" -> <<Quote>> \o v.s \o <<Quote>>
    [] v.t = "map" ->
         IF DOMAIN v.m = {} THEN <<"{", "}">>
         ELSE <<"{", "\n">> \o MarshalEntries(v.m, SortedKeys(DOMAIN v.m), depth + 1)
              \o Indent(depth) \o <<"}">>

MarshalEntries(m, keys, depth) ==
  IF keys = <<>> THEN <<>>
  ELSE Indent(depth) \o <<Quote>> \o keys[1] \o <<Quote, ":", " ">>
       \o MarshalValue(m[keys[1]], depth)
       \o (IF Len(keys) > 1 THEN <<",">> ELSE <<>>) \o <<"\n">>
       \o MarshalEntries(m, Tail(keys), depth)

\* json.MarshalIndent(data, "", "  "): the bytes, or an error.
MarshalIndent(data) ==
  IF Marshalable(data) THEN [err |-> FALSE, bytes |-> MarshalValue(data, 0)]
  ELSE [err |-> TRUE, bytes |-> <<>>]

----------------------------------------------------------------------------
(* The environment: the bucket, the typst compiler, the inputs.            *)

Str(s) == <<Quote>> \o s \o <<Quote>>
Member(name, value) == Str(name) \o <<":">> \o value

RECURSIVE JoinMembers(_)
JoinMembers(ms) ==
  IF ms = <<>> THEN <<>>
  ELSE IF Len(ms) = 1 THEN ms[1]
  ELSE ms[1] \o <<",">> \o JoinMembers(Tail(ms))

Object(ms) == <<"{">> \o JoinMembers(ms) \o <<"}">>

\* The bucket: keys and the bytes stored under them.  Key "m" is absent.
\*   t  a template that reads no data       u  a template that reads data.json
\*   e  a template with a syntax error      d  {"a":1}
\*   b  {}x (an object followed by a stray byte)          n  null
\*   w  {} and a space (an object followed by white space)
Bucket ==
  [key \in {<<"t">>, <<"u">>, <<"e">>, <<"d">>, <<"b">>, <<"n">>, <<"w">>} |->
     CASE key = <<"t">> -> <<"=", "H">>
       [] key = <<"u">> -> <<"#", "d">>
       [] key = <<"e">> -> <<"#", "(">>
       [] key = <<"d">> -> Object(<<Member(<<"a">>, <<"1">>)>>)
       [] key = <<"b">> -> <<"{", "}", "x">>
       [] key = <<"w">> -> <<"{", "}", " ">>
       [] key = <<"n">> -> <<"n", "u", "l", "l">>]

\* File names in the work directory (typst.go constants).
sourceFileName == "main.typ"
outputFileName == "output.pdf"
dataFileName == "data.json"

\* `typst compile dir/main.typ dir/output.pdf` run in dir: a deterministic
\* function of its arguments and of the files it finds.  "(" is an unclosed
\* delimiter; "#" reads data.json, which must exist, and the diagnostic of a
\* file that is not found names the path that was searched.  The PDF is a
\* function of the source and of the data read.
Typst(dir, files) ==
  LET src == files[sourceFileName]
      reads == \E i \in DOMAIN src : src[i] = "#"
  IN IF \E i \in DOMAIN src : src[i] = "("
       THEN [ok |-> FALSE, out |-> <<"u", "n", "c", "l", "o", "s", "e", "d">>]
     ELSE IF reads /\ dataFileName \notin DOMAIN files
       THEN [ok |-> FALSE,
             out |-> <<"n", "o", "t", " ", "f", "o", "u", "n", "d", " ",
                       dir, "/", dataFileName>>]
     ELSE [ok |-> TRUE,
           out |-> <<"%", "P", "D", "F">> \o src
                   \o (IF reads THEN files[dataFileName] ELSE <<>>)]

\* Request bodies sent to POST /generate.
KeyT == Member(TemplateKeyName, Str(<<"t">>))
KeyU == Member(TemplateKeyName, Str(<<"u">>))
KeyE == Member(TemplateKeyName, Str(<<"e">>))
KeyM == Member(TemplateKeyName, Str(<<"m">>))
KeyEmpty == Member(TemplateKeyName, Str(<<>>))
DataA == Member(DataName, Object(<<Member(<<"a">>, <<"1">>)>>))
DataEmpty == Member(DataName, <<"{", "}">>)
DataNull == Member(DataName, <<"n", "u", "l", "l">>)
DataKeyOf(k) == Member(DataKeyName, Str(k))

ValidBodies ==
  { Object(<<KeyT>>), Object(<<KeyU>>), Object(<<KeyE>>), Object(<<KeyM>>),
    Object(<<KeyU, DataA>>), Object(<<KeyU, DataEmpty>>), Object(<<KeyT, DataNull>>),
    Object(<<KeyU, DataKeyOf(<<"d">>)>>), Object(<<KeyT, DataKeyOf(<<"b">>)>>),
    Object(<<KeyU, DataKeyOf(<<"n">>)>>), Object(<<KeyT, DataKeyOf(<<"m">>)>>),
    Object(<<KeyU, DataKeyOf(<<"w">>)>>),
    Object(<<KeyM, DataKeyOf(<<"m">>)>>), Object(<<KeyM, DataKeyOf(<<"d">>)>>),
    Object(<<KeyT>>) \o <<"x">> }

InvalidBodies ==
  { <<"n", "o", "t", " ", "j", "s", "o", "n">>, <<>>, <<"n", "u", "l", "l">>,
    Str(<<"t">>), <<"{", "}">>, Object(<<KeyEmpty>>),
    Object(<<Member(TemplateKeyName, <<"1">>)>>),
    Object(<<KeyT, DataA, DataKeyOf(<<"d">>)>>),
    Object(<<KeyT, DataEmpty, DataKeyOf(<<"d">>)>>),
    Object(<<DataA, DataKeyOf(<<"d">>)>>),
    Object(<<KeyT, Member(DataName, <<"1">>)>>),
    <<"{">> \o KeyT }

Bodies == ValidBodies \cup InvalidBodies

\* Bodies of the concurrent runs.
ConcBodies ==
  { Object(<<KeyT>>), Object(<<KeyU>>), Object(<<KeyU, DataA>>),
    Object(<<KeyU, DataKeyOf(<<"d">>)>>), Object(<<KeyE>>) }

\* Arguments of direct calls of compileTypst (as the tests call it).
Sources == { <<"=", "H">>, <<"#", "d">>, <<>> }
DataArgs == { NilMap, GoMap(EmptyFn), GoMap([k \in {<<"c">>} |-> [t |-> "chan"]]) }

\* Names os.MkdirTemp can draw for "typst-*".
DirNames == {"typst-1", "typst-2", "typst-3"}

\* Errors of the store and of the file system, as the libraries report them.
StoreErrors == {"unavailable"}

\* Size ceilings given to NewServer (0: unset).
TemplateSizes == {-1, 0, 1}
DataSizes == {-1, 0, 2}

\* Bounds of the model.
MaxRequests == 2
MaxLeaked == 1
\* Seconds that pass in one step of the clock.
TickSeconds == 10

\* Goroutines that serve requests.
Procs == {"g1", "g2"}

----------------------------------------------------------------------------
(* The server.                                                             *)

VARIABLES
  config,   \* Server.config, as NewServer left it
  g,        \* per goroutine: its position and the locals of its call
  tmp,      \* the temporary directory: work directory name -> (file name -> bytes)
  served,   \* requests and calls started so far
  work,     \* /work of the container of a ContainerTypstCompiler: file name -> bytes
  main      \* run(): its position, what it logged and what it returned

vars == <<config, g, tmp, served, work, main>>

\* fetchTimeout and shutdownTimeout, in seconds; the exit codes of run().
fetchTimeout == 30
shutdownTimeout == 10
exitSuccess == 0
exitError == 1
defaultMaxTemplateSize == 1048576
defaultMaxDataSize == 10485760

\* NewServer with the defaults applied to a ceiling of zero only.
NewServerZeroOnly(cfg) ==
  [maxTemplateSize |-> IF cfg.maxTemplateSize = 0 THEN defaultMaxTemplateSize
                       ELSE cfg.maxTemplateSize,
   maxDataSize |-> IF cfg.maxDataSize = 0 THEN defaultMaxDataSize
                   ELSE cfg.maxDataSize]

\* NewServer: a ceiling that is not positive gets its default.
NewServer(cfg) ==
  [maxTemplateSize |-> IF cfg.maxTemplateSize <= 0 THEN defaultMaxTemplateSize
                       ELSE cfg.maxTemplateSize,
   maxDataSize |-> IF cfg.maxDataSize <= 0 THEN defaultMaxDataSize
                   ELSE cfg.maxDataSize]

\* Parts of a message: a literal of the program, or bytes put in by a verb.
L(text) == [lit |-> text]
B(bytes) == [bytes |-> bytes]
Contains(msg, text) == \E i \in DOMAIN msg : msg[i] = L(text)

NoFetch == [kind |-> "none", key |-> <<>>, maxSize |-> 0, start |-> 0, deadline |-> 0]
NoRet == [state |-> "none", pdf |-> <<>>, err |-> <<>>]
NoResp == [status |-> 0, ctype |-> "", disp |-> "", body |-> <<>>]
ZeroCount ==
  [dataFetch |-> 0, templateFetch |-> 0, bucket |-> 0, keyRead |-> 0,
   mkdir |-> 0, compile |-> 0, removeAll |-> 0, resp |-> 0,
   opened |-> 0, closed |-> 0]

\* A goroutine with no call: pc is its position; kind says whether it serves
\* POST /generate ("http"), GET /health ("health") or a direct call of
\* compileTypst ("direct").  now is the time since the request arrived, in
\* seconds; cancelled says whether the request's context was cancelled, and
\* where the request was then; look is the result of exec.LookPath; exit and
\* out are the way the typst process ended and its combined output; log is
\* what the request wrote to the logger of the server; compiler is the
\* TypstCompiler given to compileTypstWith.
\* The last fields record what the call has done so far: fresh, whether the
\* work directory was new when created; removed, whether os.RemoveAll
\* succeeded; fetched, what fetchFromBucket returned; phases, the stages of
\* the request; steps, the steps of compileTypstWith taken; n, how often
\* each operation was started.
Idle ==
  [pc |-> "idle", kind |-> "none", body |-> <<>>, req |-> ZeroRequest,
   data |-> NilMap, source |-> <<>>, fetch |-> NoFetch,
   bucketOpen |-> FALSE, readerOpen |-> FALSE, workDir |-> "", fresh |-> TRUE,
   removed |-> FALSE, ret |-> NoRet, resp |-> NoResp,
   now |-> 0, cancelled |-> "", look |-> "none", exit |-> "none", out |-> <<>>,
   log |-> <<>>, compiler |-> "local", steps |-> <<>>,
   fetched |-> <<>>, phases |-> <<>>, n |-> ZeroCount]

\* http.Error(w, msg, code): one plain-text response, the message and a newline.
HttpError(rec, msg, code) ==
  [rec EXCEPT !.resp = [status |-> code, ctype |-> "text/plain; charset=utf-8",
                        disp |-> "", body |-> msg \o <<L("\n")>>],
              !.phases = Append(@, "Errored"),
              !.n.resp = @ + 1,
              !.pc = "done"]

\* StartFetch with one deadline for all the fetches of a request, counted
\* from the arrival of the request.
StartFetchRequestDeadline(rec, kind, key, maxSize) ==
  [rec EXCEPT !.fetch = [kind |-> kind, key |-> key, maxSize |-> maxSize,
                         start |-> rec.now, deadline |-> fetchTimeout],
              !.n.dataFetch = IF kind = "data" THEN @ + 1 ELSE @,
              !.n.templateFetch = IF kind = "template" THEN @ + 1 ELSE @,
              !.pc = "openBucket"]

\* A call of fetchData or fetchTemplate begins: fetchFromBucket(ctx, key, maxSize),
\* whose first line is context.WithTimeout(ctx, fetchTimeout).
StartFetch(rec, kind, key, maxSize) ==
  [rec EXCEPT !.fetch = [kind |-> kind, key |-> key, maxSize |-> maxSize,
                         start |-> rec.now, deadline |-> rec.now + fetchTimeout],
              !.n.dataFetch = IF kind = "data" THEN @ + 1 ELSE @,
              !.n.templateFetch = IF kind = "template" THEN @ + 1 ELSE @,
              !.pc = "openBucket"]

\* ValidationError with the conflict test on len(req.Data) > 0 instead of
\* req.Data != nil.
ValidationErrorNonEmptyData(req) ==
  IF req.TemplateKey = <<>> THEN <<L("templateKey is required")>>
  ELSE IF req.Data # NilMap /\ DOMAIN req.Data.m # {} /\ req.DataKey # <<>>
    THEN <<L("cannot specify both"), L(" 'data' and 'dataKey'")>>
  ELSE <<>>

\* ValidationError with the two tests in the other order.
ValidationErrorConflictFirst(req) ==
  IF req.Data # NilMap /\ req.DataKey # <<>>
    THEN <<L("cannot specify both"), L(" 'data' and 'dataKey'")>>
  ELSE IF req.TemplateKey = <<>> THEN <<L("templateKey is required")>>
  ELSE <<>>

\* ValidationError reporting every test that fails, not the first alone.
ValidationErrorEvery(req) ==
  (IF req.TemplateKey = <<>> THEN <<L("templateKey is required")>> ELSE <<>>)
  \o (IF req.Data # NilMap /\ req.DataKey # <<>>
        THEN <<L("cannot specify both"), L(" 'data' and 'dataKey'")>> ELSE <<>>)

\* The two validations of handleGenerate, in their order: the message of the
\* first that fails, or the empty message.
ValidationError(req) ==
  IF req.TemplateKey = <<>> THEN <<L("templateKey is required")>>
  ELSE IF req.Data # NilMap /\ req.DataKey # <<>>
    THEN <<L("cannot specify both"), L(" 'data' and 'dataKey'")>>
  ELSE <<>>

\* HandleGenerate fetching the data of a dataKey before the conflict test.
HandleGenerateFetchFirst(rec, cfg) ==
  LET d == DecodeRequest(rec.body)
      req == d.req
      valid == [rec EXCEPT !.req = req, !.phases = Append(@, "Validated")]
  IN IF d.err
       THEN HttpError(rec, <<L("invalid request")>>, 400)
     ELSE IF req.TemplateKey = <<>>
       THEN HttpError([rec EXCEPT !.req = req], <<L("templateKey is required")>>, 400)
     ELSE IF req.DataKey # <<>>
       THEN StartFetch(valid, "data", req.DataKey, cfg.maxDataSize)
     ELSE StartFetch([valid EXCEPT !.data = req.Data,
                                   !.phases = Append(@, "DataResolved")],
                     "template", req.TemplateKey, cfg.maxTemplateSize)

\* HandleGenerate handing no data to the compiler when the data is inline.
HandleGenerateDropInline(rec, cfg) ==
  LET d == DecodeRequest(rec.body)
      req == d.req
      valid == [rec EXCEPT !.req = req, !.phases = Append(@, "Validated")]
  IN IF d.err
       THEN HttpError(rec, <<L("invalid request")>>, 400)
     ELSE IF ValidationError(req) # <<>>
       THEN HttpError([rec EXCEPT !.req = req], ValidationError(req), 400)
     ELSE IF req.DataKey # <<>>
       THEN StartFetch(valid, "data", req.DataKey, cfg.maxDataSize)
     ELSE StartFetch([valid EXCEPT !.phases = Append(@, "DataResolved")],
                     "template", req.TemplateKey, cfg.maxTemplateSize)

\* handleGenerate from its first line to its first call into the store:
\* decode the body, validate, and choose where the data comes from.
HandleGenerate(rec, cfg) ==
  LET d == DecodeRequest(rec.body)
      req == d.req
      valid == [rec EXCEPT !.req = req, !.phases = Append(@, "Validated")]
  IN IF d.err
       THEN HttpError(rec, <<L("invalid request")>>, 400)
     ELSE IF ValidationError(req) # <<>>
       THEN HttpError([rec EXCEPT !.req = req], ValidationError(req), 400)
     ELSE IF req.DataKey # <<>>
       THEN StartFetch(valid, "data", req.DataKey, cfg.maxDataSize)
     ELSE StartFetch([valid EXCEPT !.data = req.Data,
                                   !.phases = Append(@, "DataResolved")],
                     "template", req.TemplateKey, cfg.maxTemplateSize)

\* CloseFetch without `defer bucket.Close()`.
CloseFetchReaderOnly(rec) ==
  [rec EXCEPT !.readerOpen = FALSE,
              !.n.closed = @ + (IF rec.readerOpen THEN 1 ELSE 0)]

\* The deferred reader.Close() and bucket.Close() of fetchFromBucket: each
\* runs when its defer statement was reached.
CloseFetch(rec) ==
  [rec EXCEPT !.bucketOpen = FALSE, !.readerOpen = FALSE,
              !.n.closed = @ + (IF rec.bucketOpen THEN 1 ELSE 0)
                             + (IF rec.readerOpen THEN 1 ELSE 0)]

\* The context of the fetch in progress is done: its deadline has passed.
Expired(rec) == rec.now >= rec.fetch.deadline

\* LimitRead letting one byte more than maxSize through.
LimitReadOneMore(content, maxSize) ==
  IF Len(content) <= maxSize + 1 THEN content ELSE SubSeq(content, 1, maxSize + 1)

\* io.ReadAll(io.LimitReader(reader, maxSize)): at most maxSize bytes.
LimitRead(content, maxSize) ==
  IF Len(content) <= maxSize THEN content ELSE SubSeq(content, 1, maxSize)

\* AfterFetchData parsing the stored object, not the bytes that were read.
AfterFetchDataWholeObject(rec, res, cfg) ==
  IF res.err # <<>>
    THEN HttpError(rec, <<L("failed to fetch data"), L(": ")>> \o res.err, 500)
  ELSE LET u == UnmarshalMap(Bucket[rec.fetch.key]) IN
    IF u.err # ""
      THEN HttpError(rec, <<L("failed to fetch data"), L(": "),
                            L("invalid JSON"), L(": "), L(u.err)>>, 500)
    ELSE StartFetch([rec EXCEPT !.data = u.data,
                                !.phases = Append(@, "DataResolved")],
                    "template", rec.req.TemplateKey, cfg.maxTemplateSize)

\* AfterFetchData naming the key in the error of bytes that do not parse.
AfterFetchDataKeyInParseError(rec, res, cfg) ==
  IF res.err # <<>>
    THEN HttpError(rec, <<L("failed to fetch data"), L(": ")>> \o res.err, 500)
  ELSE LET u == UnmarshalMap(res.bytes) IN
    IF u.err # ""
      THEN HttpError(rec, <<L("failed to fetch data"), L(": "),
                            L("invalid JSON"), L(" in "), B(rec.fetch.key),
                            L(": "), L(u.err)>>, 500)
    ELSE StartFetch([rec EXCEPT !.data = u.data,
                                !.phases = Append(@, "DataResolved")],
                    "template", rec.req.TemplateKey, cfg.maxTemplateSize)

\* AfterFetchData going on with nil data when the bytes do not parse.
AfterFetchDataIgnoreParseError(rec, res, cfg) ==
  IF res.err # <<>>
    THEN HttpError(rec, <<L("failed to fetch data"), L(": ")>> \o res.err, 500)
  ELSE StartFetch([rec EXCEPT !.data = UnmarshalMap(res.bytes).data,
                              !.phases = Append(@, "DataResolved")],
                  "template", rec.req.TemplateKey, cfg.maxTemplateSize)

\* fetchData after fetchFromBucket returned, and handleGenerate after it.
AfterFetchData(rec, res, cfg) ==
  IF res.err # <<>>
    THEN HttpError(rec, <<L("failed to fetch data"), L(": ")>> \o res.err, 500)
  ELSE LET u == UnmarshalMap(res.bytes) IN
    IF u.err # ""
      THEN HttpError(rec, <<L("failed to fetch data"), L(": "),
                            L("invalid JSON"), L(": "), L(u.err)>>, 500)
    ELSE StartFetch([rec EXCEPT !.data = u.data,
                                !.phases = Append(@, "DataResolved")],
                    "template", rec.req.TemplateKey, cfg.maxTemplateSize)

\* AfterFetchTemplate dropping the error of fetchTemplate.
AfterFetchTemplateIgnoreError(rec, res) ==
  [rec EXCEPT !.source = res.bytes,
              !.phases = Append(@, "TemplateFetched"),
              !.pc = "mkdirTemp"]

\* AfterFetchTemplate fetching a second time when the first fetch fails.
AfterFetchTemplateRetry(rec, res) ==
  IF res.err # <<>>
    THEN IF rec.n.templateFetch < 2
           THEN StartFetch(rec, "template", rec.fetch.key, rec.fetch.maxSize)
         ELSE HttpError(rec, <<L("failed to fetch template"), L(": ")>> \o res.err, 500)
  ELSE [rec EXCEPT !.source = res.bytes,
                   !.phases = Append(@, "TemplateFetched"),
                   !.pc = "mkdirTemp"]

\* fetchTemplate after fetchFromBucket returned, and handleGenerate after it:
\* on success compileTypst(source, data) is called.
AfterFetchTemplate(rec, res) ==
  IF res.err # <<>>
    THEN HttpError(rec, <<L("failed to fetch template"), L(": ")>> \o res.err, 500)
  ELSE [rec EXCEPT !.source = res.bytes,
                   !.phases = Append(@, "TemplateFetched"),
                   !.pc = "mkdirTemp"]

\* fetchFromBucket returns res = [err, bytes] to its caller.
FetchReturn(rec, res, cfg) ==
  LET closed == [CloseFetch(rec) EXCEPT !.fetched =
                   IF res.err = <<>>
                   THEN Append(@, [kind |-> rec.fetch.kind, key |-> rec.fetch.key,
                                   bytes |-> res.bytes])
                   ELSE @]
  IN
  IF rec.fetch.kind = "data" THEN AfterFetchData(closed, res, cfg)
  ELSE AfterFetchTemplate(closed, res)

FetchErr(msg) == [err |-> msg, bytes |-> <<>>]
FetchOk(bytes) == [err |-> <<>>, bytes |-> bytes]

\* AfterCompile naming the file of the response after the work directory.
AfterCompileNamesWorkDir(rec) ==
  IF rec.kind = "direct" THEN [rec EXCEPT !.pc = "done"]
  ELSE IF rec.ret.state = "err" THEN HttpError(rec, rec.ret.err, 500)
  ELSE [rec EXCEPT !.resp = [status |-> 200, ctype |-> "application/pdf",
                             disp |-> rec.workDir, body |-> <<B(rec.ret.pdf)>>],
                   !.phases = @ \o <<"Compiled", "Responded">>,
                   !.n.resp = @ + 1,
                   !.pc = "done"]

\* AfterCompile without the Content-Disposition header.
AfterCompileNoDisposition(rec) ==
  IF rec.kind = "direct" THEN [rec EXCEPT !.pc = "done"]
  ELSE IF rec.ret.state = "err" THEN HttpError(rec, rec.ret.err, 500)
  ELSE [rec EXCEPT !.resp = [status |-> 200, ctype |-> "application/pdf",
                             disp |-> "", body |-> <<B(rec.ret.pdf)>>],
                   !.phases = @ \o <<"Compiled", "Responded">>,
                   !.n.resp = @ + 1,
                   !.pc = "done"]

\* compileTypst returned rec.ret to handleGenerate (or to a direct caller).
AfterCompile(rec) ==
  IF rec.kind = "direct" THEN [rec EXCEPT !.pc = "done"]
  ELSE IF rec.ret.state = "err" THEN HttpError(rec, rec.ret.err, 500)
  ELSE [rec EXCEPT !.resp = [status |-> 200, ctype |-> "application/pdf",
                             disp |-> "inline; filename=\"output.pdf\"",
                             body |-> <<B(rec.ret.pdf)>>],
                   !.phases = @ \o <<"Compiled", "Responded">>,
                   !.n.resp = @ + 1,
                   !.pc = "done"]

RetErr(msg) == [state |-> "err", pdf |-> <<>>, err |-> msg]
RetOk(pdf) == [state |-> "ok", pdf |-> pdf, err |-> <<>>]

\* RemoveAllReturned with the error of os.RemoveAll returned to the caller.
RemoveAllReturnedSurfaced(rec, removed) ==
  IF removed THEN AfterCompile([rec EXCEPT !.removed = TRUE])
  ELSE AfterCompile([rec EXCEPT !.ret =
                       RetErr(<<L("failed to remove temp dir"), L(": "),
                                L("unavailable")>>)])

\* The deferred os.RemoveAll(workDir) has run; its result is dropped and
\* compileTypstWith returns rec.ret to its caller.
RemoveAllReturned(rec, removed) == AfterCompile([rec EXCEPT !.removed = removed])

\* The w.Write of a 200 response, whose error is logged; http.Error drops
\* the error of its write.
WriteResponse(rec, ok) ==
  IF rec.kind = "direct" \/ rec.resp.status # 200 \/ ok THEN rec
  ELSE [rec EXCEPT !.log = Append(@, IF rec.kind = "health"
                                       THEN "failed to write health response"
                                     ELSE "failed to write PDF response")]

\* ReadOutputFile giving no bytes and no error for a file that is not there.
ReadOutputFileOrEmpty(files) ==
  IF outputFileName \in DOMAIN files THEN RetOk(files[outputFileName])
  ELSE RetOk(<<>>)

\* os.ReadFile(outputPath) on the files of the work directory.
ReadOutputFile(files) ==
  IF outputFileName \in DOMAIN files THEN RetOk(files[outputFileName])
  ELSE RetErr(<<L("failed to read output PDF"), L(": "),
                L("no such file or directory")>>)

\* CompileError with a fixed message in place of the output.
CompileErrorGeneric(output) == RetErr(<<L("compile failed: "), L("exit status 1")>>)

\* fmt.Errorf("compile failed: %s", string(output))
CompileError(output) == RetErr(<<L("compile failed: "), B(output)>>)

\* Exit with the directory removed on the success path only (no defer).
ExitRemoveOnSuccessOnly(rec, ret) ==
  IF ret.state = "err" THEN AfterCompile([rec EXCEPT !.ret = ret])
  ELSE [rec EXCEPT !.ret = ret, !.pc = "removeAll"]

\* A return of compileTypstWith after `defer os.RemoveAll(workDir)`: the
\* deferred call runs before the caller gets ret.
Exit(rec, ret) == [rec EXCEPT !.ret = ret, !.pc = "removeAll"]

\* MkdirTempNames without the test that the name is new (os.MkdirAll).
MkdirTempAnyName(dirs) == DirNames

\* The names os.MkdirTemp may create: those that do not exist.
MkdirTempNames(dirs) == DirNames \ dirs

WithDir(fs, d) ==
  [x \in DOMAIN fs \cup {d} |-> IF x \in DOMAIN fs THEN fs[x] ELSE EmptyFn]
WithoutDir(fs, d) == [x \in DOMAIN fs \ {d} |-> fs[x]]
\* WithFile writing the file into every work directory there is.
WithFileEveryDir(fs, d, name, bytes) ==
  [x \in DOMAIN fs |-> [f \in DOMAIN fs[x] \cup {name} |->
                          IF f = name THEN bytes ELSE fs[x][f]]]

WithFile(fs, d, name, bytes) ==
  [fs EXCEPT ![d] = [f \in DOMAIN fs[d] \cup {name} |->
                       IF f = name THEN bytes ELSE fs[d][f]]]

\* Positions inside fetchFromBucket.
FetchPcs == {"openBucket", "newReader", "readAll"}

\* ctx.Err() of the context of the fetch in progress.
CtxErr(rec) ==
  IF rec.cancelled # "" THEN "context canceled" ELSE "context deadline exceeded"

\* The error fetchFromBucket returns when the store call it is in fails with e.
StoreFail(rec, e) ==
  CASE rec.pc = "openBucket" -> FetchErr(<<L("open bucket: "), L(e)>>)
    [] rec.pc = "newReader" -> FetchErr(<<L("open key "), B(rec.fetch.key), L(": "), L(e)>>)
    [] OTHER -> FetchErr(<<L("read: "), L(e)>>)

\* A plain w.Write(body) with no header set: 200 and a sniffed content type.
WriteOK(rec, body) ==
  [rec EXCEPT !.resp = [status |-> 200, ctype |-> "text/plain; charset=utf-8",
                        disp |-> "", body |-> body],
              !.phases = Append(@, "Responded"),
              !.n.resp = @ + 1,
              !.pc = "done"]

\* HealthLookPath without the test of the typst command.
HealthLookPathSkipped(rec, found) ==
  [rec EXCEPT !.look = IF found THEN "found" ELSE "missing", !.pc = "healthOpen"]

\* handleHealth, first check: exec.LookPath("typst").
HealthLookPath(rec, found) ==
  IF ~found
    THEN HttpError([rec EXCEPT !.look = "missing"], <<L("typst not found")>>, 503)
  ELSE [rec EXCEPT !.look = "found", !.pc = "healthOpen"]

\* handleHealth, second check: blob.OpenBucket returned err ("" for nil).
HealthOpened(rec, err) ==
  IF err # ""
    THEN HttpError(rec, <<L("failed to open bucket")>>, 503)
  ELSE [rec EXCEPT !.bucketOpen = TRUE, !.n.opened = @ + 1, !.pc = "healthClose"]

\* handleHealth, last lines: `_ = bucket.Close()` and w.Write([]byte("OK")).
HealthOK(rec) ==
  WriteOK([rec EXCEPT !.bucketOpen = FALSE, !.n.closed = @ + 1], <<L("OK")>>)

\* run() after `go func() { serverErrors <- httpServer.ListenAndServe() }()`
\* and signal.Notify: pc is its position; listen says whether ListenAndServe
\* is serving or has returned its error into serverErrors; sig is the signal
\* waiting in the shutdown channel and got the one run() received; elapsed
\* is the time since shutdownCtx was made, in seconds; closed says whether
\* httpServer.Close() was called; exit is the code returned (-1: none yet)
\* and returns how often run() returned.
Started ==
  [pc |-> "select", listen |-> "serving", sig |-> "", got |-> "", elapsed |-> 0,
   closed |-> FALSE, log |-> <<>>, exit |-> -1, returns |-> 0]

\* run() returns code.
Return(m, code) == [m EXCEPT !.exit = code, !.returns = @ + 1, !.pc = "returned"]

\* The select of run() takes the error of ListenAndServe from serverErrors.
ServerError(m) == Return([m EXCEPT !.log = Append(@, "server error")], exitError)

\* The select of run() takes a signal from shutdown; httpServer.Shutdown is
\* called with a context of shutdownTimeout and closes the listener.
ShutdownSignal(m) ==
  [m EXCEPT !.got = m.sig, !.sig = "", !.elapsed = 0,
            !.listen = IF @ = "serving" THEN "closed" ELSE @,
            !.log = Append(@, "received shutdown signal"),
            !.pc = "shutdown"]

\* ShutdownReturned returning after the log line, without httpServer.Close().
ShutdownReturnedNoClose(m, failed, closeFailed) ==
  IF failed
    THEN Return([m EXCEPT !.log = Append(@, "graceful shutdown failed")], exitError)
  ELSE Return([m EXCEPT !.log = Append(@, "server stopped gracefully")], exitSuccess)

\* httpServer.Shutdown(shutdownCtx) returned, with an error or without; on
\* an error httpServer.Close() is called, and fails or not.
ShutdownReturned(m, failed, closeFailed) ==
  IF failed
    THEN Return([m EXCEPT !.closed = TRUE,
                          !.log = @ \o <<"graceful shutdown failed">>
                                    \o (IF closeFailed THEN <<"forced shutdown failed">>
                                        ELSE <<>>)],
                exitError)
  ELSE Return([m EXCEPT !.log = Append(@, "server stopped gracefully")], exitSuccess)

\* Goroutines inside compileTypstWith that hold a work directory.
Holding(p) ==
  g[p].pc \in {"writeData", "writeSource", "compile", "running", "exec", "copyOut",
               "readOutput", "removeAll"}
Leaked == DOMAIN tmp \ {g[p].workDir : p \in {q \in Procs : Holding(q)}}

----------------------------------------------------------------------------
(* Steps.                                                                  *)

\* A POST /generate request arrives at goroutine p.
Receive(p, bodies) ==
  /\ g[p].pc \in {"idle", "done"}
  /\ served < MaxRequests
  /\ \E body \in bodies :
       g' = [g EXCEPT ![p] = [Idle EXCEPT !.pc = "decode", !.kind = "http",
                                          !.body = body, !.phases = <<"Received">>]]
  /\ served' = served + 1
  /\ UNCHANGED <<config, tmp, work, main>>

\* compileTypst(source, data) is called directly.
CallCompile(p) ==
  /\ g[p].pc \in {"idle", "done"}
  /\ served < MaxRequests
  /\ \E source \in Sources, data \in DataArgs :
       g' = [g EXCEPT ![p] = [Idle EXCEPT !.pc = "mkdirTemp", !.kind = "direct",
                                          !.source = source, !.data = data]]
  /\ served' = served + 1
  /\ UNCHANGED <<config, tmp, work, main>>

Validate(p) ==
  /\ g[p].pc = "decode"
  /\ g' = [g EXCEPT ![p] = HandleGenerate(g[p], config)]
  /\ UNCHANGED <<config, tmp, served, work, main>>

\* blob.OpenBucket(ctx, s.config.bucketURL)
OpenBucket(p) ==
  /\ g[p].pc = "openBucket"
  /\ ~Expired(g[p])
  /\ LET rec == [g[p] EXCEPT !.n.bucket = @ + 1] IN
       \/ g' = [g EXCEPT ![p] = [rec EXCEPT !.bucketOpen = TRUE, !.n.opened = @ + 1,
                                            !.pc = "newReader"]]
       \/ \E e \in StoreErrors :
            g' = [g EXCEPT ![p] =
                    FetchReturn(rec, FetchErr(<<L("open bucket: "), L(e)>>), config)]
  /\ UNCHANGED <<config, tmp, served, work, main>>

\* bucket.NewReader(ctx, key, nil)
NewReader(p) ==
  /\ g[p].pc = "newReader"
  /\ ~Expired(g[p])
  /\ LET rec == [g[p] EXCEPT !.n.keyRead = @ + 1]
         key == rec.fetch.key
         fail(e) == FetchReturn(rec, FetchErr(<<L("open key "), B(key), L(": "), L(e)>>),
                                config)
     IN \/ /\ key \in DOMAIN Bucket
           /\ g' = [g EXCEPT ![p] = [rec EXCEPT !.readerOpen = TRUE, !.n.opened = @ + 1,
                                                !.pc = "readAll"]]
        \/ /\ key \notin DOMAIN Bucket
           /\ g' = [g EXCEPT ![p] = fail("NotFound")]
        \/ \E e \in StoreErrors : g' = [g EXCEPT ![p] = fail(e)]
  /\ UNCHANGED <<config, tmp, served, work, main>>

\* io.ReadAll(io.LimitReader(reader, maxSize)) and the return of fetchFromBucket
ReadAll(p) ==
  /\ g[p].pc = "readAll"
  /\ ~Expired(g[p])
  /\ LET rec == g[p] IN
       \/ g' = [g EXCEPT ![p] =
                  FetchReturn(rec, FetchOk(LimitRead(Bucket[rec.fetch.key],
                                                     rec.fetch.maxSize)), config)]
       \/ \E e \in StoreErrors :
            g' = [g EXCEPT ![p] = FetchReturn(rec, FetchErr(<<L("read: "), L(e)>>), config)]
  /\ UNCHANGED <<config, tmp, served, work, main>>

\* os.MkdirTemp("", "typst-*") and `defer os.RemoveAll(workDir)`
MkdirTemp(p) ==
  /\ g[p].pc = "mkdirTemp"
  /\ LET rec == [g[p] EXCEPT !.n.mkdir = @ + 1, !.steps = Append(@, "mkdir")] IN
       \/ \E d \in MkdirTempNames(DOMAIN tmp) :
            /\ tmp' = WithDir(tmp, d)
            /\ g' = [g EXCEPT ![p] =
                       [rec EXCEPT !.workDir = d,
                                   !.fresh = d \notin DOMAIN tmp,
                                   !.pc = IF rec.data # NilMap THEN "writeData"
                                          ELSE "writeSource"]]
       \/ /\ tmp' = tmp
          /\ \E e \in StoreErrors :
               g' = [g EXCEPT ![p] =
                       AfterCompile([rec EXCEPT !.ret =
                          RetErr(<<L("failed to create temp dir"), L(": "), L(e)>>)])]
  /\ UNCHANGED <<config, served, work, main>>

\* json.MarshalIndent(data, "", "  ") and os.WriteFile(dataPath, dataBytes, 0600)
WriteData(p) ==
  /\ g[p].pc = "writeData"
  /\ LET rec == [g[p] EXCEPT !.steps = Append(@, "data")]
         mj == MarshalIndent(rec.data)
     IN IF mj.err
          THEN /\ g' = [g EXCEPT ![p] =
                          Exit(rec, RetErr(<<L("failed to marshal data"), L(": "),
                                             L("unsupported type")>>))]
               /\ tmp' = tmp
        ELSE \/ /\ tmp' = WithFile(tmp, rec.workDir, dataFileName, mj.bytes)
                /\ g' = [g EXCEPT ![p] = [rec EXCEPT !.pc = "writeSource"]]
             \/ /\ tmp' = tmp
                /\ \E e \in StoreErrors :
                     g' = [g EXCEPT ![p] =
                             Exit(rec, RetErr(<<L("failed to write data file"), L(": "),
                                                L(e)>>))]
  /\ UNCHANGED <<config, served, work, main>>

\* os.WriteFile(sourcePath, []byte(source), 0600)
WriteSource(p) ==
  /\ g[p].pc = "writeSource"
  /\ LET rec == [g[p] EXCEPT !.steps = Append(@, "source")] IN
       \/ /\ tmp' = WithFile(tmp, rec.workDir, sourceFileName, rec.source)
          /\ g' = [g EXCEPT ![p] = [rec EXCEPT !.pc = "compile"]]
       \/ /\ tmp' = tmp
          /\ \E e \in StoreErrors :
               g' = [g EXCEPT ![p] =
                       Exit(rec, RetErr(<<L("failed to write source file"), L(": "),
                                          L(e)>>))]
  /\ UNCHANGED <<config, served, work, main>>

\* compiler.Compile(ctx, workDir) with the LocalTypstCompiler, up to the
\* start of the process inside cmd.CombinedOutput(): the typst process runs,
\* or it cannot be started at all and there is no output.
StartTypst(p) ==
  /\ g[p].pc = "compile"
  /\ g[p].compiler = "local"
  /\ LET rec == [g[p] EXCEPT !.n.compile = @ + 1, !.steps = Append(@, "compile")] IN
       \/ g' = [g EXCEPT ![p] = [rec EXCEPT !.pc = "running"]]
       \/ g' = [g EXCEPT ![p] =
                  Exit([rec EXCEPT !.exit = "notrun"],
                       CompileError(<<>>))]
  /\ UNCHANGED <<config, tmp, served, work, main>>

\* cmd.CombinedOutput() returns: the typst process has ended by itself.  Its
\* context is context.Background(), which is never done, so nothing else ends
\* it.  The command found as "typst" may also exit with status 0 without
\* having written the output file.
Compile(p) ==
  /\ g[p].pc = "running"
  /\ LET rec == g[p]
         run == Typst(rec.workDir, tmp[rec.workDir])
     IN \/ /\ run.ok
           /\ tmp' = WithFile(tmp, rec.workDir, outputFileName, run.out)
           /\ g' = [g EXCEPT ![p] = [rec EXCEPT !.exit = "zero", !.pc = "readOutput"]]
        \/ /\ tmp' = tmp
           /\ g' = [g EXCEPT ![p] = [rec EXCEPT !.exit = "nooutput", !.pc = "readOutput"]]
        \/ /\ ~run.ok
           /\ tmp' = tmp
           /\ g' = [g EXCEPT ![p] =
                      Exit([rec EXCEPT !.exit = "nonzero", !.out = run.out],
                           CompileError(run.out))]
  /\ UNCHANGED <<config, served, work, main>>

\* os.ReadFile(outputPath) and the return of the PDF
ReadOutput(p) ==
  /\ g[p].pc = "readOutput"
  /\ LET rec == [g[p] EXCEPT !.steps = Append(@, "read")] IN
       \/ g' = [g EXCEPT ![p] = Exit(rec, ReadOutputFile(tmp[rec.workDir]))]
       \/ \E e \in StoreErrors :
            g' = [g EXCEPT ![p] =
                    Exit(rec, RetErr(<<L("failed to read output PDF"), L(": "), L(e)>>))]
  /\ UNCHANGED <<config, tmp, served, work, main>>

\* The deferred os.RemoveAll(workDir), whose error is dropped, and the return
\* of compileTypstWith to its caller.
RemoveAll(p) ==
  /\ g[p].pc = "removeAll"
  /\ LET rec == [g[p] EXCEPT !.n.removeAll = @ + 1] IN
       \E ok \in BOOLEAN :
         \/ /\ tmp' = WithoutDir(tmp, rec.workDir)
            /\ g' = [g EXCEPT ![p] = WriteResponse(RemoveAllReturned(rec, TRUE), ok)]
         \/ /\ Cardinality(Leaked) < MaxLeaked
            /\ tmp' = tmp
            /\ g' = [g EXCEPT ![p] = WriteResponse(RemoveAllReturned(rec, FALSE), ok)]
  /\ UNCHANGED <<config, served, work, main>>

\* compileTypstWith(ctx, testCompiler, source, data) is called, testCompiler
\* being the one ContainerTypstCompiler of the test binary.
CallCompileWith(p) ==
  /\ g[p].pc \in {"idle", "done"}
  /\ served < MaxRequests
  /\ \E source \in Sources, data \in DataArgs :
       g' = [g EXCEPT ![p] = [Idle EXCEPT !.pc = "mkdirTemp", !.kind = "direct",
                                          !.compiler = "container",
                                          !.source = source, !.data = data]]
  /\ served' = served + 1
  /\ UNCHANGED <<config, tmp, work, main>>

\* The files of /work after CopyFileToContainer(ctx, from, "/work/" + name).
CopyFileToContainer(files, name, bytes) ==
  [f \in DOMAIN files \cup {name} |-> IF f = name THEN bytes ELSE files[f]]

\* ContainerTypstCompiler.Compile, first part: the source is copied to
\* /work/main.typ, and data.json to /work/data.json if the work directory
\* has one.
ContainerCopy(p) ==
  /\ g[p].pc = "compile"
  /\ g[p].compiler = "container"
  /\ LET rec == [g[p] EXCEPT !.n.compile = @ + 1, !.steps = Append(@, "compile")]
         dir == tmp[rec.workDir]
         withSource == CopyFileToContainer(work, sourceFileName, dir[sourceFileName])
         fail(msg, e) == Exit(rec, RetErr(<<L(msg), L(": "), L(e)>>))
     IN \/ /\ dataFileName \in DOMAIN dir
           /\ work' = CopyFileToContainer(withSource, dataFileName, dir[dataFileName])
           /\ g' = [g EXCEPT ![p] = [rec EXCEPT !.pc = "exec"]]
        \/ /\ dataFileName \notin DOMAIN dir
           /\ work' = withSource
           /\ g' = [g EXCEPT ![p] = [rec EXCEPT !.pc = "exec"]]
        \/ /\ work' = work
           /\ \E e \in StoreErrors :
                g' = [g EXCEPT ![p] = fail("failed to copy source file to container", e)]
        \/ /\ dataFileName \in DOMAIN dir
           /\ work' = withSource
           /\ \E e \in StoreErrors :
                g' = [g EXCEPT ![p] = fail("failed to copy data file to container", e)]
  /\ UNCHANGED <<config, tmp, served, main>>

\* ContainerTypstCompiler.Compile, second part: `typst compile
\* /work/main.typ /work/output.pdf` is run in the container.
ContainerExec(p) ==
  /\ g[p].pc = "exec"
  /\ LET rec == g[p]
         run == Typst("/work", work)
     IN \/ /\ run.ok
           /\ work' = CopyFileToContainer(work, outputFileName, run.out)
           /\ g' = [g EXCEPT ![p] = [rec EXCEPT !.exit = "zero", !.pc = "copyOut"]]
        \/ /\ ~run.ok
           /\ work' = work
           /\ g' = [g EXCEPT ![p] =
                      Exit([rec EXCEPT !.exit = "nonzero", !.out = run.out],
                           RetErr(<<L("compile failed: "), B(run.out)>>))]
        \/ /\ work' = work
           /\ \E e \in StoreErrors :
                g' = [g EXCEPT ![p] =
                        Exit([rec EXCEPT !.exit = "notrun"],
                             RetErr(<<L("failed to exec typst compile"), L(": "), L(e)>>))]
  /\ UNCHANGED <<config, tmp, served, main>>

\* ContainerTypstCompiler.Compile, last part: /work/output.pdf is copied
\* from the container, read, and written to the work directory.
ContainerCopyOut(p) ==
  /\ g[p].pc = "copyOut"
  /\ LET rec == g[p] IN
       \/ /\ tmp' = WithFile(tmp, rec.workDir, outputFileName, work[outputFileName])
          /\ g' = [g EXCEPT ![p] = [rec EXCEPT !.pc = "readOutput"]]
       \/ /\ tmp' = tmp
          /\ \E e \in StoreErrors,
                msg \in {"failed to copy output PDF from container",
                         "failed to read output PDF", "failed to write output PDF"} :
               g' = [g EXCEPT ![p] = Exit(rec, RetErr(<<L(msg), L(": "), L(e)>>))]
  /\ UNCHANGED <<config, served, work, main>>

\* httpServer.ListenAndServe() returns an error while run() has not called
\* Shutdown: the error goes into serverErrors.
ListenAndServe ==
  /\ main.pc = "select"
  /\ main.listen = "serving"
  /\ main' = [main EXCEPT !.listen = "failed"]
  /\ UNCHANGED <<config, g, tmp, served, work>>

\* SIGINT or SIGTERM is delivered to the shutdown channel (of capacity 1).
Signal ==
  /\ main.pc # "returned"
  /\ main.sig = ""
  /\ \E s \in {"interrupt", "terminated"} : main' = [main EXCEPT !.sig = s]
  /\ UNCHANGED <<config, g, tmp, served, work>>

\* case serverErr := <-serverErrors
SelectServerError ==
  /\ main.pc = "select"
  /\ main.listen = "failed"
  /\ main' = ServerError(main)
  /\ UNCHANGED <<config, g, tmp, served, work>>

\* case sig := <-shutdown
SelectShutdown ==
  /\ main.pc = "select"
  /\ main.sig # ""
  /\ main' = ShutdownSignal(main)
  /\ UNCHANGED <<config, g, tmp, served, work>>

\* Time passes while httpServer.Shutdown waits for the requests in progress.
ShutdownTick ==
  /\ main.pc = "shutdown"
  /\ main.elapsed < shutdownTimeout
  /\ main' = [main EXCEPT !.elapsed = IF @ + TickSeconds > shutdownTimeout
                                       THEN shutdownTimeout ELSE @ + TickSeconds]
  /\ UNCHANGED <<config, g, tmp, served, work>>

\* httpServer.Shutdown returns nil: no request is in progress and
\* shutdownCtx is not done.
ShutdownDone ==
  /\ main.pc = "shutdown"
  /\ main.elapsed < shutdownTimeout
  /\ \A p \in Procs : g[p].pc \in {"idle", "done"}
  /\ main' = ShutdownReturned(main, FALSE, FALSE)
  /\ UNCHANGED <<config, g, tmp, served, work>>

\* httpServer.Shutdown returns the error of shutdownCtx, which is done.
ShutdownFailed ==
  /\ main.pc = "shutdown"
  /\ main.elapsed >= shutdownTimeout
  /\ \E closeFailed \in BOOLEAN : main' = ShutdownReturned(main, TRUE, closeFailed)
  /\ UNCHANGED <<config, g, tmp, served, work>>

\* A GET /health request arrives at goroutine p.
ReceiveHealth(p) ==
  /\ g[p].pc \in {"idle", "done"}
  /\ served < MaxRequests
  /\ g' = [g EXCEPT ![p] = [Idle EXCEPT !.pc = "health", !.kind = "health",
                                        !.phases = <<"Received">>]]
  /\ served' = served + 1
  /\ UNCHANGED <<config, tmp, work, main>>

\* exec.LookPath("typst"): the command is found in PATH or it is not.
LookPath(p) ==
  /\ g[p].pc = "health"
  /\ \E found \in BOOLEAN : g' = [g EXCEPT ![p] = HealthLookPath(g[p], found)]
  /\ UNCHANGED <<config, tmp, served, work, main>>

\* blob.OpenBucket(r.Context(), s.config.bucketURL) of handleHealth
HealthOpenBucket(p) ==
  /\ g[p].pc = "healthOpen"
  /\ LET rec == [g[p] EXCEPT !.n.bucket = @ + 1] IN
       \E err \in StoreErrors \cup {""} :
         g' = [g EXCEPT ![p] = HealthOpened(rec, err)]
  /\ UNCHANGED <<config, tmp, served, work, main>>

\* `_ = bucket.Close()` and the OK response
HealthClose(p) ==
  /\ g[p].pc = "healthClose"
  /\ \E ok \in BOOLEAN : g' = [g EXCEPT ![p] = WriteResponse(HealthOK(g[p]), ok)]
  /\ UNCHANGED <<config, tmp, served, work, main>>

\* GET /health served by goroutine p.
Health(p) ==
  \/ ReceiveHealth(p)
  \/ LookPath(p)
  \/ HealthOpenBucket(p)
  \/ HealthClose(p)

\* Time passes while a fetch of p is in progress and its context is not done;
\* the context is done at its deadline.
Tick(p) ==
  /\ g[p].pc \in FetchPcs
  /\ ~Expired(g[p])
  /\ g' = [g EXCEPT ![p].now = IF @ + TickSeconds > g[p].fetch.deadline
                                THEN g[p].fetch.deadline ELSE @ + TickSeconds]
  /\ UNCHANGED <<config, tmp, served, work, main>>

\* The client of p goes away: r.Context() is cancelled.
Cancel(p) ==
  /\ g[p].kind = "http"
  /\ g[p].pc \notin {"idle", "done"}
  /\ g[p].cancelled = ""
  /\ g' = [g EXCEPT ![p].cancelled =
              IF g[p].pc = "running" THEN "running"
              ELSE IF g[p].pc \in FetchPcs THEN "fetch" ELSE "other"]
  /\ UNCHANGED <<config, tmp, served, work, main>>

\* The context of the fetch in progress is done (its deadline has passed, or
\* r.Context() was cancelled): the store call returns ctx.Err().
ContextDone(p) ==
  /\ g[p].pc \in FetchPcs
  /\ Expired(g[p]) \/ g[p].cancelled # ""
  /\ g' = [g EXCEPT ![p] = FetchReturn(g[p], StoreFail(g[p], CtxErr(g[p])), config)]
  /\ UNCHANGED <<config, tmp, served, work, main>>

\* The steps of goroutine p serving POST /generate.
Serve(p, bodies) ==
  \/ Receive(p, bodies)
  \/ Validate(p)
  \/ OpenBucket(p)
  \/ NewReader(p)
  \/ ReadAll(p)
  \/ MkdirTemp(p)
  \/ WriteData(p)
  \/ WriteSource(p)
  \/ StartTypst(p)
  \/ Compile(p)
  \/ ReadOutput(p)
  \/ RemoveAll(p)

InitWith(templateSizes, dataSizes) ==
  /\ \E mt \in templateSizes, md \in dataSizes :
       config = NewServer([maxTemplateSize |-> mt, maxDataSize |-> md])
  /\ g = [p \in Procs |-> Idle]
  /\ tmp = EmptyFn
  /\ served = 0
  /\ work = EmptyFn
  /\ main = Started

\* One goroutine serving one request after another, over every body.
Init == InitWith(TemplateSizes, DataSizes)
Next == Serve("g1", Bodies) \/ CallCompile("g1")
Spec == Init /\ [][Next]_vars

\* Two goroutines serving requests concurrently, with the default ceilings.
InitConc == InitWith({0}, {0})
NextConc == \E p \in Procs : Serve(p, ConcBodies)
SpecConc == InitConc /\ [][NextConc]_vars

\* Bodies of the timed runs.
TimedBodies == { Object(<<KeyT>>), Object(<<KeyU, DataKeyOf(<<"d">>)>>) }

\* One goroutine serving /generate and /health, with time passing during
\* fetches and clients going away.  Time does not stop, and a store call
\* whose context is done returns; a store call may otherwise never return.
NextTimed ==
  \/ Serve("g1", TimedBodies)
  \/ Health("g1")
  \/ Tick("g1")
  \/ Cancel("g1")
  \/ ContextDone("g1")
SpecTimed ==
  /\ InitConc /\ [][NextTimed]_vars
  /\ WF_vars(Tick("g1")) /\ WF_vars(ContextDone("g1"))

\* run() with one goroutine serving /generate: requests are accepted while
\* the listener is open, and served until run() returns and the process
\* exits.  The select takes a case that is ready, time does not stop while
\* Shutdown waits, and Shutdown returns when its context is done.
NextMain ==
  \/ main.pc = "select" /\ main.listen = "serving" /\ Receive("g1", TimedBodies)
  \/ /\ main.pc # "returned"
     /\ \/ Validate("g1")
        \/ OpenBucket("g1")
        \/ NewReader("g1")
        \/ ReadAll("g1")
        \/ MkdirTemp("g1")
        \/ WriteData("g1")
        \/ WriteSource("g1")
        \/ StartTypst("g1")
        \/ Compile("g1")
        \/ ReadOutput("g1")
        \/ RemoveAll("g1")
  \/ ListenAndServe
  \/ Signal
  \/ SelectServerError
  \/ SelectShutdown
  \/ ShutdownTick
  \/ ShutdownDone
  \/ ShutdownFailed
SpecMain ==
  /\ InitConc /\ [][NextMain]_vars
  /\ WF_vars(ShutdownTick) /\ WF_vars(ShutdownFailed)

\* One goroutine calling compileTypstWith with the container compiler, one
\* call after another, as the integration tests do.
NextContainer ==
  \/ CallCompileWith("g1")
  \/ MkdirTemp("g1")
  \/ WriteData("g1")
  \/ WriteSource("g1")
  \/ ContainerCopy("g1")
  \/ ContainerExec("g1")
  \/ ContainerCopyOut("g1")
  \/ ReadOutput("g1")
  \/ RemoveAll("g1")
SpecContainer == InitConc /\ [][NextContainer]_vars

----------------------------------------------------------------------------
(* Properties.                                                             *)

Http(p) == g[p].kind = "http"
Answered(p) == Http(p) /\ g[p].pc = "done"
Decoded(p) == DecodeRequest(g[p].body)
Returned(p) == g[p].pc = "done" /\ g[p].workDir # ""
Answer(p, status, text) ==
  g[p].resp.status = status /\ Contains(g[p].resp.body, text)
DataFetched(p) == \E i \in DOMAIN g[p].fetched : g[p].fetched[i].kind = "data"
Stage(p, name) == \E i \in DOMAIN g[p].phases : g[p].phases[i] = name

\* C1 as stated: when a call of compileTypstWith that created its work
\* directory has returned, the directory no longer exists.
C1_RemovedOnReturn ==
  \A p \in Procs : Returned(p) => g[p].workDir \notin DOMAIN tmp

\* C1 amended: on every exit path after the directory was created,
\* os.RemoveAll is called on it exactly once before the call returns, and not
\* before the call ends; the directory no longer exists on return whenever
\* that removal succeeded.
C1_RemoveAttemptedOnReturn ==
  \A p \in Procs :
    /\ Returned(p) =>
         /\ g[p].n.removeAll = 1
         /\ g[p].removed => g[p].workDir \notin DOMAIN tmp
    /\ g[p].pc \in {"writeData", "writeSource", "compile", "readOutput", "removeAll"} =>
         g[p].n.removeAll = 0 /\ g[p].workDir \in DOMAIN tmp

\* A call whose compiler failed has returned and its directory is gone.
C1_Witness ==
  \E p \in Procs :
    /\ Returned(p) /\ g[p].removed
    /\ g[p].ret.state = "err" /\ Contains(g[p].ret.err, "compile failed: ")
    /\ g[p].workDir \notin DOMAIN tmp

\* C2: no two calls in flight hold the same work directory, and the
\* directory a call holds was new when the call created it.
C2_WorkDirNotShared ==
  /\ \A p, q \in Procs :
       p # q /\ Holding(p) /\ Holding(q) => g[p].workDir # g[q].workDir
  /\ \A p \in Procs :
       Holding(p) => g[p].fresh /\ g[p].workDir \in DOMAIN tmp

\* Two compilations in flight, each with files in its own directory.
C2_Witness ==
  \A p \in Procs :
    Holding(p) /\ sourceFileName \in DOMAIN tmp[g[p].workDir]

\* C3 as stated: a request with inline data and a dataKey is answered 400
\* "cannot specify both".
C3_BothAlwaysConflict ==
  \A p \in Procs :
    Answered(p) /\ ~Decoded(p).err
      /\ Decoded(p).req.Data # NilMap /\ Decoded(p).req.DataKey # <<>>
    => Answer(p, 400, "cannot specify both")

\* C3 amended: a request with a non-empty templateKey, inline data and a
\* dataKey is answered 400 "cannot specify both".
C3_BothWithTemplateKeyConflict ==
  \A p \in Procs :
    Answered(p) /\ ~Decoded(p).err
      /\ Decoded(p).req.TemplateKey # <<>>
      /\ Decoded(p).req.Data # NilMap /\ Decoded(p).req.DataKey # <<>>
    => Answer(p, 400, "cannot specify both")

\* The conflict is answered for an empty inline object.
C3_Witness ==
  \E p \in Procs :
    /\ Answered(p) /\ Decoded(p).req.TemplateKey # <<>>
    /\ Decoded(p).req.Data = GoMap(EmptyFn) /\ Decoded(p).req.DataKey # <<>>
    /\ Answer(p, 400, "cannot specify both")

\* C4: a body that decodes and has no templateKey is answered 400
\* "templateKey is required", whatever its data and dataKey.
C4_TemplateKeyRequired ==
  \A p \in Procs :
    Answered(p) /\ ~Decoded(p).err /\ Decoded(p).req.TemplateKey = <<>>
    => Answer(p, 400, "templateKey is required")

\* Such a request that also sets data and dataKey.
C4_Witness ==
  \E p \in Procs :
    /\ Answered(p) /\ ~Decoded(p).err /\ Decoded(p).req.TemplateKey = <<>>
    /\ Decoded(p).req.Data # NilMap /\ Decoded(p).req.DataKey # <<>>
    /\ Answer(p, 400, "templateKey is required")

\* C5 as stated: a request whose templateKey is absent from the store is
\* answered 500 "failed to fetch template".
C5_AbsentTemplateAlways ==
  \A p \in Procs :
    Answered(p) /\ ~Decoded(p).err
      /\ Decoded(p).req.TemplateKey # <<>>
      /\ Decoded(p).req.TemplateKey \notin DOMAIN Bucket
    => Answer(p, 500, "failed to fetch template")

\* C5 amended: a request that passed validation and whose data is resolved,
\* and whose templateKey is absent from the store, is answered 500 "failed
\* to fetch template".
C5_AbsentTemplateAfterData ==
  \A p \in Procs :
    Answered(p) /\ Stage(p, "DataResolved")
      /\ g[p].req.TemplateKey \notin DOMAIN Bucket
    => Answer(p, 500, "failed to fetch template")

\* The absent template of a request whose data came from the store.
C5_Witness ==
  \E p \in Procs :
    /\ Answered(p) /\ DataFetched(p)
    /\ g[p].req.TemplateKey \notin DOMAIN Bucket
    /\ Answer(p, 500, "failed to fetch template")
    /\ Contains(g[p].resp.body, "NotFound")

\* C6 as stated: a validated request whose dataKey holds bytes that are not
\* valid JSON, and whose fetch succeeds, is answered 500 "invalid JSON".
C6_InvalidStoredJSON ==
  \A p \in Procs :
    Answered(p) /\ DataFetched(p)
      /\ ~ValidJSON(Bucket[g[p].req.DataKey])
    => Answer(p, 500, "invalid JSON")

\* C6 amended: a validated request whose dataKey holds bytes of which the
\* first maxDataSize are not valid JSON, and whose fetch succeeds, is
\* answered 500 "failed to fetch data: invalid JSON".
C6_InvalidFetchedJSON ==
  \A p \in Procs :
    Answered(p) /\ DataFetched(p)
      /\ ~ValidJSON(LimitRead(Bucket[g[p].req.DataKey], config.maxDataSize))
    => /\ Answer(p, 500, "invalid JSON")
       /\ Contains(g[p].resp.body, "failed to fetch data")
       /\ ~Stage(p, "DataResolved")

\* Valid stored JSON cut by the ceiling, and answered "invalid JSON".
C6_Witness ==
  \E p \in Procs :
    /\ Answered(p) /\ DataFetched(p)
    /\ ValidJSON(Bucket[g[p].req.DataKey])
    /\ ~ValidJSON(LimitRead(Bucket[g[p].req.DataKey], config.maxDataSize))
    /\ Answer(p, 500, "invalid JSON")

\* The data of p was asked of the store, and either the fetch failed or the
\* bytes it returned do not unmarshal into a map.
DataResolutionFailed(p) ==
  /\ Answered(p) /\ g[p].n.dataFetch = 1
  /\ \A i \in DOMAIN g[p].fetched :
       g[p].fetched[i].kind = "data" => UnmarshalMap(g[p].fetched[i].bytes).err # ""

\* C7: when the data of a validated request cannot be fetched or parsed, the
\* answer is 500 "failed to fetch data: <detail>", and neither the template
\* fetch nor the compiler was started.
C7_DataFailure ==
  \A p \in Procs :
    DataResolutionFailed(p) =>
      /\ g[p].resp.status = 500
      /\ Len(g[p].resp.body) >= 4
      /\ SubSeq(g[p].resp.body, 1, 2) = <<L("failed to fetch data"), L(": ")>>
      /\ g[p].n.templateFetch = 0 /\ g[p].n.mkdir = 0 /\ g[p].n.compile = 0
      /\ ~Stage(p, "DataResolved")
      /\ g[p].n.resp = 1

\* The bytes were fetched and did not parse.
C7_Witness ==
  \E p \in Procs :
    /\ DataResolutionFailed(p) /\ DataFetched(p)
    /\ Answer(p, 500, "invalid JSON")

\* C8: a body that is not valid JSON is answered 400 "invalid request".
C8_InvalidBodyRejected ==
  \A p \in Procs :
    Answered(p) /\ ~ValidJSON(g[p].body) => Answer(p, 400, "invalid request")

Stages == <<"Received", "Validated", "DataResolved", "TemplateFetched",
            "Compiled", "Responded">>
IsPrefix(a, b) == Len(a) <= Len(b) /\ SubSeq(b, 1, Len(a)) = a

\* C9: the stages of a request are passed in the order Received, Validated,
\* DataResolved, TemplateFetched, Compiled, Responded; a step starts only
\* after the earlier ones succeeded and at most once; the first failure ends
\* the request with exactly one error response and nothing after it.
C9_Pipeline ==
  \A p \in Procs : Http(p) =>
    LET ph == g[p].phases
        errored == ph # <<>> /\ ph[Len(ph)] = "Errored"
        ok == IF errored THEN SubSeq(ph, 1, Len(ph) - 1) ELSE ph
    IN /\ IsPrefix(ok, Stages) /\ ok # <<>>
       /\ errored => Len(ok) < 5
       /\ g[p].n.dataFetch <= 1 /\ g[p].n.templateFetch <= 1
       /\ g[p].n.mkdir <= 1 /\ g[p].n.compile <= 1 /\ g[p].n.resp <= 1
       /\ g[p].n.dataFetch = 1 => Stage(p, "Validated")
       /\ g[p].n.templateFetch = 1 => Stage(p, "DataResolved")
       /\ g[p].n.mkdir = 1 => Stage(p, "TemplateFetched")
       /\ g[p].n.compile = 1 => g[p].n.mkdir = 1
       /\ Stage(p, "Compiled") => g[p].n.compile = 1
       /\ (errored \/ Stage(p, "Responded")) <=> g[p].pc = "done"
       /\ g[p].pc = "done" => g[p].n.resp = 1
       /\ g[p].pc # "done" => g[p].n.resp = 0
       /\ errored => g[p].resp.status \in {400, 500}
       /\ Stage(p, "Responded") => g[p].resp.status = 200

\* A request that failed at the template fetch, after its data was fetched.
C9_Witness ==
  \E p \in Procs :
    /\ g[p].phases = <<"Received", "Validated", "DataResolved", "Errored">>
    /\ g[p].n.dataFetch = 1 /\ g[p].n.templateFetch = 1 /\ g[p].n.compile = 0

FailsValidation(p) ==
  \/ Decoded(p).err
  \/ Decoded(p).req.TemplateKey = <<>>
  \/ Decoded(p).req.Data # NilMap /\ Decoded(p).req.DataKey # <<>>

\* C10: a request that fails validation is answered 400, and a request
\* answered 400 has opened no bucket, read no key, created no work directory
\* and started no compiler.
C10_RejectedBeforeStore ==
  \A p \in Procs :
    /\ Answered(p) /\ FailsValidation(p) => g[p].resp.status = 400
    /\ Http(p) /\ g[p].resp.status = 400 =>
         /\ g[p].n.bucket = 0 /\ g[p].n.keyRead = 0
         /\ g[p].n.dataFetch = 0 /\ g[p].n.templateFetch = 0
         /\ g[p].n.mkdir = 0 /\ g[p].n.compile = 0
         /\ g[p].fetched = <<>> /\ g[p].workDir = ""

\* A request with data and a dataKey that is in the store was rejected.
C10_Witness ==
  \E p \in Procs :
    /\ Answered(p) /\ g[p].resp.status = 400
    /\ Decoded(p).req.Data # NilMap /\ Decoded(p).req.DataKey \in DOMAIN Bucket
    /\ Decoded(p).req.TemplateKey \in DOMAIN Bucket

\* C11: when compileTypst returns a PDF, it is the bytes of the output file
\* in the work directory of that call, and the response is 200 with
\* Content-Type application/pdf, Content-Disposition inline;
\* filename="output.pdf", and exactly those bytes as its body.
C11_SuccessResponse ==
  \A p \in Procs :
    /\ g[p].pc = "removeAll" /\ g[p].ret.state = "ok" =>
         g[p].ret.pdf = tmp[g[p].workDir][outputFileName]
    /\ Answered(p) /\ g[p].ret.state = "ok" =>
         /\ g[p].resp = [status |-> 200, ctype |-> "application/pdf",
                         disp |-> "inline; filename=\"output.pdf\"",
                         body |-> <<B(g[p].ret.pdf)>>]
         /\ g[p].n.resp = 1

\* A PDF made from a template and data that both came from the store.
C11_Witness ==
  \E p \in Procs :
    /\ Answered(p) /\ g[p].ret.state = "ok" /\ g[p].resp.status = 200
    /\ DataFetched(p) /\ g[p].data # NilMap
    /\ Len(g[p].ret.pdf) > 4

\* C12: when the typst process ends with a non-zero exit, the error of the
\* compilation is "compile failed: " followed by the output of the process,
\* unchanged, and the response is 500 with that message as its body.
C12_DiagnosticSurfaced ==
  \A p \in Procs :
    g[p].exit = "nonzero" =>
      /\ g[p].out # <<>>
      /\ g[p].pc = "removeAll" => g[p].out = Typst(g[p].workDir, tmp[g[p].workDir]).out
      /\ g[p].ret = [state |-> "err", pdf |-> <<>>,
                     err |-> <<L("compile failed: "), B(g[p].out)>>]
      /\ Answered(p) =>
           /\ g[p].resp.status = 500
           /\ g[p].resp.body = <<L("compile failed: "), B(g[p].out), L("\n")>>

\* A template with an unclosed delimiter was answered with the diagnostic.
C12_Witness ==
  \E p \in Procs :
    /\ Answered(p) /\ g[p].exit = "nonzero" /\ g[p].resp.status = 500
    /\ \E i \in DOMAIN g[p].resp.body :
         g[p].resp.body[i] = B(<<"u", "n", "c", "l", "o", "s", "e", "d">>)

\* compileTypst was called for the request of p.
HandedToCompiler(p) == Http(p) /\ g[p].n.mkdir = 1

\* C13 as stated: the data handed to the compiler is the inline object when
\* only data is set, the object parsed from the bytes stored under dataKey
\* when only dataKey is set, and nil when neither is set.
C13_DataFromStoredBytes ==
  \A p \in Procs :
    HandedToCompiler(p) =>
      LET req == Decoded(p).req IN
        IF req.DataKey # <<>>
          THEN /\ UnmarshalMap(Bucket[req.DataKey]).err = ""
               /\ g[p].data = UnmarshalMap(Bucket[req.DataKey]).data
        ELSE g[p].data = req.Data

\* C13 amended: the data handed to the compiler is resolved once: the inline
\* object when only data is set; the object that the first maxDataSize bytes
\* stored under dataKey parse to when only dataKey is set; nil when neither
\* is set.
C13_DataFromFetchedBytes ==
  \A p \in Procs :
    HandedToCompiler(p) =>
      LET req == Decoded(p).req
          read == IF Len(Bucket[req.DataKey]) <= config.maxDataSize
                    THEN Bucket[req.DataKey]
                  ELSE SubSeq(Bucket[req.DataKey], 1, config.maxDataSize)
      IN /\ g[p].req = req
         /\ ~(req.Data # NilMap /\ req.DataKey # <<>>)
         /\ IF req.DataKey # <<>>
              THEN /\ g[p].n.dataFetch = 1
                   /\ UnmarshalMap(read).err = ""
                   /\ UnmarshalMap(read).data # NilMap =>
                        g[p].data = UnmarshalMap(read).data
            ELSE g[p].n.dataFetch = 0 /\ g[p].data = req.Data

\* An object from the store was handed to the compiler.
C13_Witness ==
  \E p \in Procs :
    /\ HandedToCompiler(p) /\ g[p].req.DataKey # <<>>
    /\ g[p].data # NilMap /\ DOMAIN g[p].data.m = {<<"a">>}

\* The size ceiling of a kind of fetch.
Ceiling(kind) ==
  IF kind = "data" THEN config.maxDataSize ELSE config.maxTemplateSize

\* C14: a fetch that returns without error returns the stored content when
\* it is no longer than the ceiling, and its first ceiling bytes otherwise;
\* never more than the ceiling.
C14_FetchTruncates ==
  \A p \in Procs : \A i \in DOMAIN g[p].fetched :
    LET f == g[p].fetched[i]
        C == Bucket[f.key]
        m == Ceiling(f.kind)
    IN /\ m > 0
       /\ Len(f.bytes) <= m
       /\ f.bytes = IF Len(C) <= m THEN C ELSE SubSeq(C, 1, m)

\* A content longer than the ceiling was returned cut, and another whole.
C14_Witness ==
  \E p \in Procs : \E i, j \in DOMAIN g[p].fetched :
    /\ Len(Bucket[g[p].fetched[i].key]) > Ceiling(g[p].fetched[i].kind)
    /\ Len(g[p].fetched[i].bytes) = Ceiling(g[p].fetched[i].kind)
    /\ g[p].fetched[j].bytes = Bucket[g[p].fetched[j].key]
    /\ g[p].fetched[j].bytes # <<>>

\* C15: the bucket connection is open only between a successful
\* blob.OpenBucket and the return of the call that opened it, and the read
\* stream only between a successful NewReader and that return; outside the
\* store calls of a fetch or health check nothing is open, and everything
\* that was opened has been closed.
C15_ConnectionsClosed ==
  \A p \in Procs :
    /\ g[p].pc \notin {"newReader", "readAll", "healthClose"} => ~g[p].bucketOpen
    /\ g[p].pc # "readAll" => ~g[p].readerOpen
    /\ g[p].pc \notin FetchPcs \cup {"healthClose"} => g[p].n.opened = g[p].n.closed

\* A request whose second fetch failed after its bucket was opened.
C15_Witness ==
  \E p \in Procs :
    /\ Answered(p) /\ g[p].resp.status = 500
    /\ g[p].n.opened = 3 /\ g[p].n.closed = 3
    /\ ~g[p].bucketOpen /\ ~g[p].readerOpen

\* The fetch of that kind is in progress for p.
InFetch(p, kind) == g[p].pc \in FetchPcs /\ g[p].fetch.kind = kind

\* While a fetch is in progress its deadline is fetchTimeout after its own
\* start and has not been passed; an answer that reports the deadline is a
\* 500 fetch failure.
C16_OwnDeadline ==
  \A p \in Procs :
    /\ g[p].pc \in FetchPcs =>
         /\ g[p].fetch.deadline = g[p].fetch.start + fetchTimeout
         /\ g[p].fetch.start <= g[p].now /\ g[p].now <= g[p].fetch.deadline
    /\ Answered(p) /\ Contains(g[p].resp.body, "context deadline exceeded") =>
         /\ g[p].resp.status = 500
         /\ \/ Contains(g[p].resp.body, "failed to fetch data")
            \/ Contains(g[p].resp.body, "failed to fetch template")

\* C16: each fetch has its own deadline, fetchTimeout after the start of that
\* fetch; a fetch that reaches it returns an error that is answered as a 500
\* fetch failure; and every fetch in progress returns, even when the store
\* never answers.
C16_FetchTimeout ==
  /\ []C16_OwnDeadline
  /\ \A p \in Procs : \A kind \in {"data", "template"} :
       InFetch(p, kind) ~> ~InFetch(p, kind)

\* The template fetch reached its own deadline after a data fetch that had
\* taken time of its own.
C16_Witness ==
  \E p \in Procs :
    /\ Answered(p) /\ DataFetched(p)
    /\ g[p].fetch.kind = "template" /\ g[p].fetch.start > 0
    /\ g[p].now = g[p].fetch.start + fetchTimeout
    /\ Answer(p, 500, "failed to fetch template")
    /\ Contains(g[p].resp.body, "context deadline exceeded")

\* C17: a typst process that was running when its request was cancelled does
\* not run to completion.
C17_CancelTerminatesCompiler ==
  \A p \in Procs :
    g[p].cancelled = "running" => g[p].exit \notin {"zero", "nonzero"}

HealthAnswered(p) == g[p].kind = "health" /\ g[p].pc = "done"

\* C18: GET /health answers 200 "OK" exactly when typst is found and the
\* bucket opens; 503 "typst not found" when typst is not found, without
\* opening the bucket; 503 "failed to open bucket" when typst is found and the
\* bucket does not open.  It reads no key, creates no work directory and
\* starts no compiler.
C18_Health ==
  \A p \in Procs :
    /\ HealthAnswered(p) =>
         /\ g[p].n.resp = 1
         /\ g[p].resp.status = 200 <=> (g[p].look = "found" /\ g[p].n.opened = 1)
         /\ g[p].resp.status = 200 =>
              g[p].resp.body = <<L("OK")>> /\ g[p].n.closed = 1
         /\ g[p].look = "missing" =>
              /\ g[p].resp.status = 503
              /\ g[p].resp.body = <<L("typst not found"), L("\n")>>
              /\ g[p].n.bucket = 0
         /\ g[p].look = "found" /\ g[p].n.opened = 0 =>
              /\ g[p].resp.status = 503
              /\ g[p].resp.body = <<L("failed to open bucket"), L("\n")>>
              /\ g[p].n.bucket = 1
    /\ g[p].kind = "health" =>
         /\ g[p].n.keyRead = 0 /\ g[p].n.mkdir = 0 /\ g[p].n.compile = 0
         /\ g[p].n.dataFetch = 0 /\ g[p].n.templateFetch = 0
         /\ g[p].workDir = "" /\ g[p].fetched = <<>>

\* typst was found and the bucket did not open.
C18_Witness ==
  \E p \in Procs :
    /\ HealthAnswered(p) /\ g[p].look = "found" /\ g[p].n.bucket = 1
    /\ g[p].n.opened = 0 /\ Answer(p, 503, "failed to open bucket")

\* C19: NewServer gives a ceiling that is not positive its default and keeps
\* a positive one; both ceilings of the server are positive; a template fetch
\* is bounded by maxTemplateSize and a data fetch by maxDataSize.
C19_Ceilings ==
  /\ \A mt \in TemplateSizes, md \in DataSizes :
       LET c == NewServer([maxTemplateSize |-> mt, maxDataSize |-> md]) IN
         /\ c.maxTemplateSize = IF mt > 0 THEN mt ELSE defaultMaxTemplateSize
         /\ c.maxDataSize = IF md > 0 THEN md ELSE defaultMaxDataSize
  /\ defaultMaxTemplateSize = 1024 * 1024 /\ defaultMaxDataSize = 10 * 1024 * 1024
  /\ config.maxTemplateSize > 0 /\ config.maxDataSize > 0
  /\ \A p \in Procs :
       /\ g[p].pc \in FetchPcs => g[p].fetch.maxSize = Ceiling(g[p].fetch.kind)
       /\ \A i \in DOMAIN g[p].fetched :
            Len(g[p].fetched[i].bytes) <= Ceiling(g[p].fetched[i].kind)

\* A configured template ceiling next to the default data ceiling, each
\* bounding its own fetch.
C19_Witness ==
  /\ config = [maxTemplateSize |-> 1, maxDataSize |-> defaultMaxDataSize]
  /\ \E p \in Procs : \E i, j \in DOMAIN g[p].fetched :
       /\ g[p].fetched[i].kind = "template" /\ Len(g[p].fetched[i].bytes) = 1
       /\ g[p].fetched[j].kind = "data" /\ Len(g[p].fetched[j].bytes) > 2

\* The compiler of p is about to run or running.
AtCompiler(p) == g[p].pc \in {"compile", "running"}

\* C20: when the compiler runs, data.json is in the work directory exactly
\* when the request names a data source (inline data, or a dataKey whose
\* fetch and parse succeeded).
C20_DataFileForEverySource ==
  \A p \in Procs :
    Http(p) /\ AtCompiler(p) =>
      (dataFileName \in DOMAIN tmp[g[p].workDir]
         <=> (g[p].req.Data # NilMap \/ g[p].req.DataKey # <<>>))

\* What compileTypstWith does with the data it is given: when the compiler
\* runs, data.json is in the work directory exactly when the data is not
\* nil, and it holds the indented JSON of that data; an empty object is
\* written as {}.
DataFileWhenNotNil ==
  \A p \in Procs :
    AtCompiler(p) =>
      LET files == tmp[g[p].workDir] IN
        /\ sourceFileName \in DOMAIN files /\ files[sourceFileName] = g[p].source
        /\ dataFileName \in DOMAIN files <=> g[p].data # NilMap
        /\ g[p].data # NilMap =>
             /\ ~MarshalIndent(g[p].data).err
             /\ files[dataFileName] = MarshalIndent(g[p].data).bytes
        /\ g[p].data = GoMap(EmptyFn) => files[dataFileName] = <<"{", "}">>
        /\ Http(p) =>
             (g[p].data # NilMap <=>
                \/ g[p].req.Data # NilMap
                \/ \E i \in DOMAIN g[p].fetched :
                     /\ g[p].fetched[i].kind = "data"
                     /\ UnmarshalMap(g[p].fetched[i].bytes).data # NilMap)

\* The compiler runs with the data.json of an empty inline object.
DataFileOfEmptyObject ==
  \E p \in Procs :
    /\ Http(p) /\ g[p].pc = "running"
    /\ g[p].req.Data = GoMap(EmptyFn)
    /\ tmp[g[p].workDir][dataFileName] = <<"{", "}">>

\* The request of p met a failure of the store, of the file system or of the
\* start of the typst process.
EnvFailed(p) ==
  \/ g[p].exit \in {"notrun", "nooutput"}
  \/ \E e \in StoreErrors : Contains(g[p].resp.body, e)

\* Two answered requests with the same body that met no failure of their
\* environment.
SameRequest(p, q) ==
  /\ p # q /\ Answered(p) /\ Answered(q) /\ g[p].body = g[q].body
  /\ ~EnvFailed(p) /\ ~EnvFailed(q)

FetchFailed(p) ==
  /\ Answered(p) /\ g[p].resp.status = 500
  /\ \/ Contains(g[p].resp.body, "failed to fetch data")
     \/ Contains(g[p].resp.body, "failed to fetch template")

\* The answer of p names the key of the fetch that failed.
NamesKey(p) == \E i \in DOMAIN g[p].resp.body : g[p].resp.body[i] = B(g[p].fetch.key)

\* C22 as stated: every error of fetching or parsing a key carries that key.
C22_KeyInEveryError ==
  \A p \in Procs : FetchFailed(p) => NamesKey(p)

\* C22 amended: the error of a fetch carries the key exactly when the key
\* could not be opened ("open key <key>: ..."); the errors of opening the
\* bucket and of reading, and the invalid-JSON error, which wraps the error
\* of the parser, carry the underlying error only.
C22_KeyInOpenKeyErrorOnly ==
  \A p \in Procs :
    FetchFailed(p) =>
      /\ NamesKey(p) <=> Contains(g[p].resp.body, "open key ")
      /\ \/ Contains(g[p].resp.body, "open bucket: ")
         \/ Contains(g[p].resp.body, "open key ")
         \/ Contains(g[p].resp.body, "read: ")
         \/ Contains(g[p].resp.body, "invalid JSON")
      /\ Contains(g[p].resp.body, "invalid JSON") =>
           \E e \in {"syntax", "type"} :
             g[p].resp.body = <<L("failed to fetch data"), L(": "),
                                L("invalid JSON"), L(": "), L(e), L("\n")>>

\* A key that is not in the store was named in the answer.
C22_Witness ==
  \E p \in Procs :
    /\ FetchFailed(p) /\ NamesKey(p)
    /\ g[p].fetch.key \notin DOMAIN Bucket
    /\ Contains(g[p].resp.body, "NotFound")

\* The step in which the compileTypstWith of p returns, its directory not
\* removed.
CleanupFailed(p) ==
  /\ g[p].pc = "removeAll" /\ g'[p].pc = "done"
  /\ ~g'[p].removed /\ g[p].workDir \in DOMAIN tmp'

OwnFilesOnly(p) ==
  Holding(p) =>
    LET files == tmp[g[p].workDir] IN
      /\ DOMAIN files \subseteq {sourceFileName, dataFileName, outputFileName}
      /\ sourceFileName \in DOMAIN files => files[sourceFileName] = g[p].source
      /\ dataFileName \in DOMAIN files =>
           g[p].data # NilMap /\ files[dataFileName] = MarshalIndent(g[p].data).bytes
      /\ outputFileName \in DOMAIN files =>
           files[outputFileName] =
             Typst(g[p].workDir, [f \in DOMAIN files \ {outputFileName} |-> files[f]]).out

\* A step of goroutine p changes nothing of the other goroutines and no work
\* directory but its own, and leaves no connection open when it answers.
OwnStep(p) ==
  /\ \A q \in Procs \ {p} : g'[q] = g[q]
  /\ \A d \in (DOMAIN tmp \cup DOMAIN tmp') \ {g[p].workDir, g'[p].workDir} :
       d \in DOMAIN tmp /\ d \in DOMAIN tmp' /\ tmp'[d] = tmp[d]
  /\ g'[p].pc = "done" => ~g'[p].bucketOpen /\ ~g'[p].readerOpen

\* C24: the configuration never changes after NewServer; every step is the
\* step of one request and touches only the locals and the work directory
\* of that request; what the compiler of a request reads is what that
\* request wrote; a request that has ended, with whatever error, holds
\* nothing open.
C24_NoSharedState ==
  /\ [](\A p \in Procs : OwnFilesOnly(p))
  /\ [][config' = config /\ \E p \in Procs : OwnStep(p)]_vars

\* One request was answered with an error and left its directory behind,
\* while another, compiling at the same time or later, got its PDF.
C24_Witness ==
  \E p, q \in Procs :
    /\ Answered(q) /\ g[q].resp.status = 500 /\ g[q].workDir \in DOMAIN tmp
    /\ Answered(p) /\ g[p].resp.status = 200 /\ g[p].workDir # g[q].workDir

\* The files typst can read for its compilation, out of the directory it
\* is run on.
Inputs(files) == [f \in DOMAIN files \cap {sourceFileName, dataFileName} |-> files[f]]

\* The files one call of compileTypstWith writes for its compiler.
Written(rec) ==
  IF rec.data = NilMap THEN [f \in {sourceFileName} |-> rec.source]
  ELSE [f \in {sourceFileName, dataFileName} |->
          IF f = sourceFileName THEN rec.source ELSE MarshalIndent(rec.data).bytes]

ReadsData(source) == \E i \in DOMAIN source : source[i] = "#"

\* C25: whichever compiler runs, the files typst finds when it runs are the
\* ones this call of compileTypstWith wrote, and a call with nil data whose
\* template reads data.json returns an error.
C25_CompilerReadsOwnFiles ==
  \A p \in Procs :
    /\ g[p].pc = "running" => Inputs(tmp[g[p].workDir]) = Written(g[p])
    /\ g[p].pc = "exec" => Inputs(work) = Written(g[p])
    /\ g[p].kind = "direct" /\ g[p].pc = "done" /\ g[p].data = NilMap
         /\ ReadsData(g[p].source) /\ g[p].n.compile = 1
       => g[p].ret.state = "err"

\* A container compilation with nil data finds the data.json of an earlier
\* compilation in /work.
C25_Witness ==
  \E p \in Procs :
    /\ g[p].pc = "exec" /\ g[p].data = NilMap
    /\ dataFileName \in DOMAIN work

Last(seq) == seq[Len(seq)]

StepOrder(rec) ==
  <<"mkdir">> \o (IF rec.data # NilMap THEN <<"data">> ELSE <<>>)
              \o <<"source", "compile", "read">>

\* The errors each step of compileTypstWith returns.
StepErrors(step) ==
  CASE step = "mkdir" -> {"failed to create temp dir"}
    [] step = "data" -> {"failed to marshal data", "failed to write data file"}
    [] step = "source" -> {"failed to write source file"}
    [] step = "compile" -> {"compile failed: "}
    [] step = "read" -> {"failed to read output PDF"}

Called(p) == g[p].kind \in {"http", "direct"} /\ g[p].steps # <<>>

\* C27: the steps of compileTypstWith are taken in the order create
\* directory, write data (if not nil), write source, compile, read output;
\* an error returned is the error of the last step taken, so that no step
\* follows a failed one; the compiler runs on the files written; and a
\* result without error is the whole output of a compiler that wrote it.
C27_StepsInOrder ==
  \A p \in Procs :
    Called(p) =>
      LET rec == g[p] IN
        /\ IsPrefix(rec.steps, StepOrder(rec))
        /\ rec.n.compile = Cardinality({i \in DOMAIN rec.steps : rec.steps[i] = "compile"})
        /\ rec.pc = "running" => Inputs(tmp[rec.workDir]) = Written(rec)
        /\ rec.ret.state = "err" =>
             \E text \in StepErrors(Last(rec.steps)) : Contains(rec.ret.err, text)
        /\ rec.ret.state = "ok" =>
             /\ rec.steps = StepOrder(rec)
             /\ rec.exit = "zero"
             /\ rec.ret.pdf = Typst(rec.workDir, Written(rec)).out
        /\ rec.exit = "nooutput" /\ rec.ret.state # "none" => rec.ret.state = "err"

\* The compiler ended with status 0 and wrote no output file, and the call
\* returned the error of reading it.
C27_Witness ==
  \E p \in Procs :
    /\ g[p].exit = "nooutput" /\ g[p].pc = "done" /\ g[p].data # NilMap
    /\ g[p].steps = StepOrder(g[p])
    /\ Contains(g[p].ret.err, "no such file or directory")

\* What POST /generate with this body is answered when it fails validation.
Rejection(text) ==
  [status |-> 400, ctype |-> "text/plain; charset=utf-8", disp |-> "",
   body |-> text \o <<L("\n")>>]

\* C28: the answer to a request is that of the first check its body fails,
\* in the order decode, templateKey, conflict of data and dataKey, whatever
\* the later checks would say; a request that passes all three is not
\* answered 400.  Inline data counts as present when it is not nil.
C28_FirstFailingCheck ==
  \A p \in Procs :
    Answered(p) =>
      LET d == Decoded(p) IN
        IF d.err
          THEN g[p].resp = Rejection(<<L("invalid request")>>)
        ELSE IF d.req.TemplateKey = <<>>
          THEN g[p].resp = Rejection(<<L("templateKey is required")>>)
        ELSE IF d.req.Data # NilMap /\ d.req.DataKey # <<>>
          THEN g[p].resp = Rejection(<<L("cannot specify both"),
                                       L(" 'data' and 'dataKey'")>>)
        ELSE g[p].resp.status # 400

\* A request without templateKey that sets both data and dataKey got the
\* answer of the templateKey check alone.
C28_Witness ==
  \E p \in Procs :
    /\ Answered(p) /\ ~Decoded(p).err
    /\ Decoded(p).req.Data # NilMap /\ Decoded(p).req.DataKey # <<>>
    /\ Decoded(p).req.TemplateKey = <<>>
    /\ g[p].resp = Rejection(<<L("templateKey is required")>>)

\* The first m bytes of a stored object.
Prefix(C, m) == [i \in 1..(IF Len(C) < m THEN Len(C) ELSE m) |-> C[i]]

\* A stored JSON object (not null) that is longer than the data ceiling.
LongObject(C) ==
  /\ UnmarshalMap(C).err = "" /\ UnmarshalMap(C).data # NilMap
  /\ Len(C) > config.maxDataSize

\* C29 as stated: a request whose dataKey names a valid JSON object longer
\* than the ceiling is answered "invalid JSON".
C29_LongObjectInvalid ==
  \A p \in Procs :
    Answered(p) /\ DataFetched(p) /\ LongObject(Bucket[g[p].req.DataKey])
    => Answer(p, 500, "invalid JSON")

\* C29, amended: what a request with a fetched dataKey does is decided by
\* the first maxDataSize bytes of the stored object: if they do not parse
\* the answer is "invalid JSON" and nothing is compiled, otherwise the data is
\* what they parse to.  They parse, for a valid object longer than the
\* ceiling, only if nothing but white space lies beyond the ceiling, and
\* the data is then that of the whole object, never a part of it.
C29_OutcomeOfPrefix ==
  \A p \in Procs :
    Answered(p) /\ DataFetched(p) =>
      LET C == Bucket[g[p].req.DataKey]
          u == UnmarshalMap(Prefix(C, config.maxDataSize))
      IN /\ IF u.err # ""
              THEN /\ Answer(p, 500, "invalid JSON")
                   /\ g[p].n.mkdir = 0 /\ g[p].n.compile = 0
                   /\ g[p].n.templateFetch = 0
            ELSE /\ g[p].data = u.data
                 /\ ~Contains(g[p].resp.body, "invalid JSON")
         /\ LongObject(C) =>
              IF \A i \in (config.maxDataSize + 1)..Len(C) : C[i] \in Space
                THEN u.err = "" /\ u.data = UnmarshalMap(C).data
              ELSE u.err # ""

\* A stored object with white space beyond the ceiling was fetched, cut at
\* the ceiling, and compiled into a PDF.
C29_Witness ==
  \E p \in Procs :
    /\ Answered(p) /\ DataFetched(p) /\ LongObject(Bucket[g[p].req.DataKey])
    /\ g[p].resp.status = 200 /\ g[p].data = GoMap(EmptyFn)

====
